---- MODULE Spec2Model ----
(***************************************************************************)
(* Model of the reactive query core of better-convex-nuxt:                 *)
(*   - useConvexQuery (composables/useConvexQuery.ts): the subscription    *)
(*     bridge of a binding (setupSubscription, the args watcher, the       *)
(*     onUnmounted hook),                                                  *)
(*   - the subscription cache kept on the NuxtApp (_convexSubscriptions,   *)
(*     types.d.ts) and its helpers of utils/convex-cache.                  *)
(* A binding is one call of useConvexQuery by one component instance, on   *)
(* the client (import.meta.client), with its args given as a ref.          *)
(* convex.onUpdate is taken to return a subscription every time it is      *)
(* called.  useAsyncData keeps one data ref per key: bindings created with *)
(* the same key hold the same ref, and a binding keeps the key it was      *)
(* created with (line 174) when its args change.                           *)
(*   - the one-shot fetches of a binding (QuerySpec): the runs of the      *)
(*     useAsyncData handler and executeQueryViaSubscription.  The status   *)
(*     is the one useAsyncData keeps: pending while a run waits, success   *)
(*     when a run has returned, error when it has thrown.                  *)
(*   - fetchToken of the client plugin (TokenSpec), in its two copies:     *)
(*     runtime/plugin.client.ts and the unnamed copy part_002.             *)
(*   - the useAsyncData handler step by step in either context             *)
(*     (HandlerSpec): the URL test, fetchAuthToken and executeQueryHttp on *)
(*     the server, the client test and the one-shot subscription in the    *)
(*     browser; and ensureClient of utils/shared-helpers.ts.               *)
(*   - the pure helpers (PureSpec): the cache key of getCacheKey,          *)
(*     deepEqual and compareJsonValues of utils/shared-helpers.ts, applied *)
(*     to sampled values.                                                  *)
(*   - useConvexStorageUrl (StorageSpec): useConvexQuery called with the   *)
(*     args it derives from the storage id.                                *)
(*   - the set-up of the client plugin (PluginSpec): the guard on          *)
(*     _convexInitialized, the clients made and what is provided.          *)
(*   - the auth proxy of the server (ProxySpec): the origin test and the   *)
(*     CORS headers of its responses (part_001).                           *)
(*   - getInstanceId and generatePaginationId of utils/shared-helpers.ts   *)
(*     (IdSpec).                                                           *)
(***************************************************************************)
EXTENDS Integers, Sequences, FiniteSets, TLC

\* ------------------------------------------------------------------ bounds
MaxBindings == 2        \* component instances calling useConvexQuery
MaxSubs == 3            \* calls of convex.onUpdate in one behaviour
MaxData == 1            \* distinct values a live feed pushes
MaxOps == 5             \* registry calls in one behaviour of RegSpec

Bindings == 1..MaxBindings
SubIds == 1..MaxSubs
DataValues == 1..MaxData
NoSub == 0              \* unsubscribeFn = null / no entry in the cache
NoData == 0             \* asyncData.data before any value (the default)

\* -------------------------------------------------------------- arguments
\* The query whose cache keys are derived (getFunctionName(query)).
fnName == "posts:get"

\* Values.  Every value is a tuple that starts with its kind.  A string is
\* the sequence of its characters, an array the sequence of its elements, an
\* object the sequence of its (name, value) pairs in insertion order, a
\* large integer the object {$integer: ...} of convexToJson with the integer
\* it stands for; 'skip' is the sentinel string.
SkipArgs == <<"skip", <<>>>>
Undefined == <<"undefined">>
Null == <<"null">>
NaN == <<"nan">>
Num(n) == <<"number", n>>
Str(chars) == <<"string", chars>>
Bool(b) == <<"boolean", b>>
BigInt(n) == <<"$integer", n>>
Arr(elems) == <<"array", elems>>
Obj(pairs) == <<"obj", pairs>>
isSkip(a) == a[1] = "skip"

\* Property names in the order a sort puts them.
ArgNames == <<"a", "b", "storageId">>

\* The values a binding's args ref takes: skip, {a:1,b:1}, the same object
\* with the other insertion order, and {a:2,b:1}.
ArgChoices ==
    { SkipArgs,
      Obj(<< <<"a", Num(1)>>, <<"b", Num(1)>> >>),
      Obj(<< <<"b", Num(1)>>, <<"a", Num(1)>> >>),
      Obj(<< <<"a", Num(2)>>, <<"b", Num(1)>> >>) }

\* The decimal digits, and a number written in them (String(n)).
DigitChars == <<"0", "1", "2", "3", "4", "5", "6", "7", "8", "9">>

RECURSIVE Digits(_)
Digits(n) ==
    IF n < 10 THEN <<DigitChars[n + 1]>>
    ELSE Digits(n \div 10) \o <<DigitChars[(n % 10) + 1]>>

NumberToString(n) == IF n < 0 THEN <<"-">> \o Digits(0 - n) ELSE Digits(n)

\* The pairs of an object whose name is n, in insertion order.
PairsNamed(pairs, n) == SelectSeq(pairs, LAMBDA p : p[1] = n)

RECURSIVE stableStringify_insertionOrder(_)
RECURSIVE MemberTokens(_, _)
RECURSIVE ElementTokens_insertionOrder(_, _)
\* The members of an object in the order they were inserted.
MemberTokens(pairs, i) ==
    IF i > Len(pairs) THEN <<>>
    ELSE (IF i = 1 THEN <<>> ELSE <<",">>)
         \o <<"\"", pairs[i][1], "\"", ":">>
         \o stableStringify_insertionOrder(pairs[i][2])
         \o MemberTokens(pairs, i + 1)

ElementTokens_insertionOrder(elems, i) ==
    IF i > Len(elems) THEN <<>>
    ELSE (IF i = 1 THEN <<>> ELSE <<",">>)
         \o stableStringify_insertionOrder(elems[i])
         \o ElementTokens_insertionOrder(elems, i + 1)

\* A serialiser that writes the keys of an object as it finds them
\* (JSON.stringify).
stableStringify_insertionOrder(a) ==
    CASE a[1] = "skip" -> <<"\"skip\"">>
      [] a[1] = "obj" -> <<"{">> \o MemberTokens(a[2], 1) \o <<"}">>
      [] a[1] = "$integer" ->
             <<"{", "\"", "$integer", "\"", ":", "\"">>
             \o NumberToString(a[2]) \o <<"\"", "}">>
      [] a[1] = "array" ->
             <<"[">> \o ElementTokens_insertionOrder(a[2], 1) \o <<"]">>
      [] a[1] = "string" -> <<"\"">> \o a[2] \o <<"\"">>
      [] a[1] = "number" -> NumberToString(a[2])
      [] a[1] = "boolean" -> IF a[2] THEN <<"true">> ELSE <<"false">>
      [] OTHER -> <<"null">>

RECURSIVE stableStringify(_)
RECURSIVE SortedTokens(_, _, _)
RECURSIVE ElementTokens(_, _)
\* The members of an object, names taken in sorted order from position i
\* on; first says that no member has been written yet.
SortedTokens(pairs, i, first) ==
    IF i > Len(ArgNames) THEN <<>>
    ELSE LET ps == PairsNamed(pairs, ArgNames[i])
         IN IF ps = <<>> THEN SortedTokens(pairs, i + 1, first)
            ELSE (IF first THEN <<>> ELSE <<",">>)
                 \o <<"\"", ArgNames[i], "\"", ":">>
                 \o stableStringify(ps[Len(ps)][2])
                 \o SortedTokens(pairs, i + 1, FALSE)

\* The elements of an array in their order.
ElementTokens(elems, i) ==
    IF i > Len(elems) THEN <<>>
    ELSE (IF i = 1 THEN <<>> ELSE <<",">>)
         \o stableStringify(elems[i])
         \o ElementTokens(elems, i + 1)

\* stableStringify: JSON with the keys of every object sorted, at every
\* depth, and the elements of every array in their order; the string 'skip'
\* serialises to its JSON string.
stableStringify(a) ==
    CASE a[1] = "skip" -> <<"\"skip\"">>
      [] a[1] = "obj" -> <<"{">> \o SortedTokens(a[2], 1, TRUE) \o <<"}">>
      [] a[1] = "$integer" ->
             <<"{", "\"", "$integer", "\"", ":", "\"">>
             \o NumberToString(a[2]) \o <<"\"", "}">>
      [] a[1] = "array" -> <<"[">> \o ElementTokens(a[2], 1) \o <<"]">>
      [] a[1] = "string" -> <<"\"">> \o a[2] \o <<"\"">>
      [] a[1] = "number" -> NumberToString(a[2])
      [] a[1] = "boolean" -> IF a[2] THEN <<"true">> ELSE <<"false">>
      [] OTHER -> <<"null">>

\* getQueryKey(query, args): the function name and the canonical arguments.
getQueryKey(a) == <<"convex", fnName>> \o stableStringify(a)

\* getCacheKey of useConvexQuery, for the args value a.
getCacheKey(a) ==
    IF isSkip(a) THEN <<"convex", "skip", fnName>> ELSE getQueryKey(a)

\* The key the args watcher derives for the args it cleans up (line 280).
oldCacheKey(oldArgs) == getQueryKey(oldArgs)

\* The storage ids given to useConvexStorageUrl: undefined, null, the empty
\* string and the ids of two files.
StorageIds ==
    {Undefined, Null, Str(<<>>), Str(<<"k", "g", "1">>),
     Str(<<"k", "g", "2">>)}

\* `id ? ... : ...`: undefined, null and the empty string are falsy.
isTruthy(id) == ~(id[1] \in {"undefined", "null"}) /\ id # Str(<<>>)

\* The computed args of useConvexStorageUrl (lines 90-93).
storageArgs(id) ==
    IF isTruthy(id) THEN Obj(<< <<"storageId", id>> >>) ELSE SkipArgs

CacheKeys == { getCacheKey(a) : a \in ArgChoices }
StorageKeys == { getCacheKey(storageArgs(id)) : id \in StorageIds }
DataKeys == CacheKeys \cup StorageKeys
AllKeys == CacheKeys \cup { getQueryKey(a) : a \in ArgChoices }
               \cup StorageKeys

VARIABLES
    hasClient,      \* nuxtApp.$convex is provided
    bstatus,        \* per binding: "new", "mounted" or "unmounted"
    subscribe,      \* per binding: options.subscribe
    args,           \* per binding: the value of its args ref
    watchOld,       \* per binding: the value its args watcher saw last
    asyncKey,       \* per binding: the key it gave useAsyncData
    unsubscribeFn,  \* per binding: its unsubscribeFn (a subscription or NoSub)
    subs,           \* per call of convex.onUpdate: the subscription it opened
    registry,       \* nuxtApp._convexSubscriptions: cache key -> subscription
    asyncData,      \* the data ref useAsyncData holds under each key
    regLog,         \* the registry calls made so far (RegSpec)
    variant,        \* which copy of the client plugin is installed
    convexToken,    \* useState('convex:token'): a token or NoToken
    convexUser,     \* useState('convex:user'): an identity or NoUser
    lastTokenValidation,  \* the plugin's lastTokenValidation (ms)
    now,            \* Date.now() (ms since the plugin started)
    calls,          \* per call of fetchToken: where it is and what it saw
    status,         \* asyncData.status of the binding of QuerySpec
    execs,          \* per run of the useAsyncData handler: its one-shot fetch
    server,         \* import.meta.server: the handler runs at render time
    convexUrl,      \* config.public.convex.url is configured
    runs,           \* per run of the handler in HandlerSpec: how far it got
    opLog,          \* the calls of ensureClient and how they ended
    px, py, pz,     \* the inputs of the pure helpers (PureSpec)
    pres,           \* the helper applied last and its results
    initialized,    \* nuxtApp._convexInitialized
    configSiteUrl,  \* config.public.convex.siteUrl or auth.url is set
    pluginRuns,     \* how often the client plugin has run on the app
    made,           \* what the plugin runs created, configured and provided
    proxyConfig,    \* siteUrl and trustedOrigins of the auth proxy
    response,       \* what the auth proxy did with the last request
    globalInstanceCounter,  \* shared-helpers.ts, globalInstanceCounter
    instanceIdMap,  \* shared-helpers.ts, instanceIdMap
    issued          \* the ids handed out, in the order of the calls

\* The state of the token fetcher of the client plugin.
tokenVars == <<variant, convexToken, convexUser, lastTokenValidation, now,
               calls>>

\* The state of the one-shot fetches of a binding.
fetchVars == <<status, execs>>

\* The state of the runs of the useAsyncData handler followed step by step.
handlerVars == <<server, convexUrl, runs, opLog>>

\* The inputs and results of the pure helpers.
pureVars == <<px, py, pz, pres>>

\* The client plugin's initialisation, the auth proxy, the instance ids.
pluginVars == <<initialized, configSiteUrl, pluginRuns, made>>
proxyVars == <<proxyConfig, response>>
idVars == <<globalInstanceCounter, instanceIdMap, issued>>

vars == <<hasClient, bstatus, subscribe, args, watchOld, asyncKey,
          unsubscribeFn, subs, registry, asyncData, regLog, tokenVars,
          fetchVars, handlerVars, pureVars, pluginVars, proxyVars, idVars>>

FreeSub == [state |-> "free", key |-> <<>>, owner |-> 0, teardowns |-> 0]

\* ---------------------------------------------------- subscription cache
\* hasSubscription(nuxtApp, key)
hasSubscription(reg, k) == reg[k] # NoSub

\* A register that overwrites the entry of a key that is present.
registerSubscription_overwrite(reg, k, s) == [reg EXCEPT ![k] = s]

\* registerSubscription(nuxtApp, key, unsubscribe): stores the entry if the
\* key is absent, and is a no-op if it is present.
registerSubscription(reg, k, s) ==
    IF reg[k] # NoSub THEN reg ELSE [reg EXCEPT ![k] = s]

\* A remove that leaves the entry in the cache.
removeFromSubscriptionCache_keeps(reg, k) == reg

\* removeFromSubscriptionCache(nuxtApp, key): removes the entry only.
removeFromSubscriptionCache(reg, k) == [reg EXCEPT ![k] = NoSub]

\* Calling the unsubscribe function of subscription s.
Unsubscribed(S, s) ==
    [S EXCEPT ![s] = [@ EXCEPT !.state = "closed", !.teardowns = @ + 1]]

\* A cleanup that invokes the stored unsubscribe and keeps the entry.
cleanupSubscription_keepsEntry(reg, S, k) ==
    IF reg[k] = NoSub THEN [reg |-> reg, subs |-> S]
    ELSE [reg |-> reg, subs |-> Unsubscribed(S, reg[k])]

\* A cleanup that removes the entry and does not invoke the unsubscribe.
cleanupSubscription_noTeardown(reg, S, k) ==
    [reg |-> [reg EXCEPT ![k] = NoSub], subs |-> S]

\* cleanupSubscription(nuxtApp, key): invokes the stored unsubscribe, if
\* any, and removes the entry.  The result is the cache and the
\* subscriptions afterwards.
cleanupSubscription(reg, S, k) ==
    IF reg[k] = NoSub THEN [reg |-> reg, subs |-> S]
    ELSE [reg |-> [reg EXCEPT ![k] = NoSub], subs |-> Unsubscribed(S, reg[k])]

\* A change test that compares the two args values themselves.
argsChanged_byReference(newArgs, oldArgs) == newArgs # oldArgs

\* The test of the args watcher (line 276): the canonical forms differ.
argsChanged(newArgs, oldArgs) ==
    stableStringify(newArgs) # stableStringify(oldArgs)

\* ------------------------------------------------------ setupSubscription
FreeSubs(S) == { s \in SubIds : S[s].state = "free" }
NextSub(S) == CHOOSE s \in FreeSubs(S) : \A t \in FreeSubs(S) : s <= t

\* Whether setupSubscription, run for args value a over cache reg, calls
\* convex.onUpdate.
OpensSubscription(a, reg) ==
    /\ ~isSkip(a)
    /\ hasClient
    /\ ~hasSubscription(reg, getCacheKey(a))

\* A setupSubscription whose reuse path takes the teardown of the entry it
\* found as the binding's own.
setupSubscription_adoptsEntry(b, a, u, S, reg) ==
    IF ~isSkip(a) /\ hasClient /\ hasSubscription(reg, getCacheKey(a))
    THEN [unsub |-> reg[getCacheKey(a)], subs |-> S, reg |-> reg]
    ELSE IF ~OpensSubscription(a, reg)
    THEN [unsub |-> u, subs |-> S, reg |-> reg]
    ELSE LET s == NextSub(S)
             k == getCacheKey(a)
         IN [unsub |-> s,
             subs |-> [S EXCEPT ![s] = [state |-> "open", key |-> k,
                                        owner |-> b, teardowns |-> 0]],
             reg |-> registerSubscription(reg, k, s)]

\* setupSubscription of binding b whose args are a: the binding's
\* unsubscribeFn, the subscriptions and the cache afterwards.
setupSubscription(b, a, u, S, reg) ==
    IF ~OpensSubscription(a, reg) THEN [unsub |-> u, subs |-> S, reg |-> reg]
    ELSE LET s == NextSub(S)
             k == getCacheKey(a)
         IN [unsub |-> s,
             subs |-> [S EXCEPT ![s] = [state |-> "open", key |-> k,
                                        owner |-> b, teardowns |-> 0]],
             reg |-> registerSubscription(reg, k, s)]

\* ---------------------------------------------------------- token fetcher
\* The client plugin exists in two copies that differ in fetchToken:
\* runtime/plugin.client.ts and the unnamed copy (part_002).
Variants == {"plugin.client", "part_002"}

MaxCalls == 2           \* calls of fetchToken in one behaviour
MaxTicks == 3           \* how often the clock advances in one behaviour
TOKEN_CACHE_MS == 10000 \* const TOKEN_CACHE_MS
TickMs == TOKEN_CACHE_MS \div 2    \* the clock advances by this much (ms)

CallIds == 1..MaxCalls
NoToken == "null"       \* convexToken.value is null (or undefined)
NoUser == "null"        \* convexUser.value is null (or undefined)

\* Token strings, by what their second dot-separated segment holds: a
\* payload with a subject, a payload without sub, userId and email, a
\* segment that is not base64 JSON, and a token without a second segment.
Tokens == {"h.sub.s", "h.anon.s", "h.%.s", "opaque"}

\* What the user extraction of fetchToken leaves in convexUser for a token,
\* starting from no user: the user of the payload, or no user when the
\* payload names none, cannot be decoded or is missing.
extractUser(t) == IF t = "h.sub.s" THEN "user:jwt" ELSE NoUser

\* The identities: the one the server hydrated and the one read from a JWT.
Users == {"user:ssr", "user:jwt"}

\* What authClient.convex.token() gives: it throws, it answers with an
\* error, it answers without a token, or it answers with a token.
Failures == {"throw", "error", "empty"}
Responses == Failures \cup Tokens

FreeCall == [pc |-> "free", force |-> FALSE, tok |-> NoToken,
             usr |-> NoUser, path |-> "none", ret |-> NoToken, at |-> 0,
             during |-> {}]

\* fetchToken without the time stamp of the hydrated path.
fetchToken_noValidationMark(tok, usr, last, t, force) ==
    IF tok # NoToken /\ ~force
    THEN [path |-> "hydrated", ret |-> tok, last |-> last]
    ELSE IF tok # NoToken /\ force /\ t - last < TOKEN_CACHE_MS
    THEN [path |-> "cached", ret |-> tok, last |-> last]
    ELSE [path |-> "network", ret |-> NoToken, last |-> last]

\* fetchToken that goes to the network whenever a refresh is forced.
fetchToken_ignoresCache(tok, usr, last, t, force) ==
    IF tok # NoToken /\ ~force
    THEN [path |-> "hydrated", ret |-> tok, last |-> t]
    ELSE [path |-> "network", ret |-> NoToken, last |-> last]

\* fetchToken of plugin.client.ts up to its await: which path the call
\* takes, what it returns when it returns at once, and lastTokenValidation
\* afterwards.  tok and usr are convexToken.value and convexUser.value, t is
\* Date.now().
fetchToken(tok, usr, last, t, force) ==
    IF tok # NoToken /\ ~force
    THEN [path |-> "hydrated", ret |-> tok, last |-> t]
    ELSE IF tok # NoToken /\ force /\ t - last < TOKEN_CACHE_MS
    THEN [path |-> "cached", ret |-> tok, last |-> last]
    ELSE [path |-> "network", ret |-> NoToken, last |-> last]

\* fetchToken of the copy part_002 up to its await: it has one more early
\* return, for a session without token and without user.
fetchToken_part_002(tok, usr, last, t, force) ==
    IF tok # NoToken /\ ~force
    THEN [path |-> "hydrated", ret |-> tok, last |-> t]
    ELSE IF tok # NoToken /\ force /\ t - last < TOKEN_CACHE_MS
    THEN [path |-> "cached", ret |-> tok, last |-> last]
    ELSE IF tok = NoToken /\ usr = NoUser
    THEN [path |-> "unauthenticated", ret |-> NoToken, last |-> last]
    ELSE [path |-> "network", ret |-> NoToken, last |-> last]

\* A fetchToken that, after its await, leaves the stored token alone when
\* the fetch failed.
fetchTokenResume_keepsToken(r, tok, usr, last, t) ==
    IF r \in Failures
    THEN [token |-> tok, user |-> NoUser, last |-> last, ret |-> NoToken]
    ELSE [token |-> r,
          user |-> IF usr = NoUser THEN extractUser(r) ELSE usr,
          last |-> t, ret |-> r]

\* fetchToken of plugin.client.ts after its await, for the response r: the
\* token, the user and lastTokenValidation afterwards, and what it returns.
fetchTokenResume(r, tok, usr, last, t) ==
    IF r \in Failures
    THEN [token |-> NoToken, user |-> NoUser, last |-> last, ret |-> NoToken]
    ELSE [token |-> r,
          user |-> IF usr = NoUser THEN extractUser(r) ELSE usr,
          last |-> t, ret |-> r]

\* fetchToken of the copy part_002 after its await.
fetchTokenResume_part_002(r, tok, usr, last, t) ==
    IF r \in Failures
    THEN [token |-> NoToken, user |-> usr, last |-> last, ret |-> NoToken]
    ELSE [token |-> r, user |-> usr, last |-> t, ret |-> r]

\* The token fetcher before the plugin has run.
TokenIdle ==
    /\ variant = "plugin.client"
    /\ convexToken = NoToken
    /\ convexUser = NoUser
    /\ lastTokenValidation = 0
    /\ now = 0
    /\ calls = [c \in CallIds |-> FreeCall]

\* ------------------------------------------------------- one-shot fetches
MaxFetches == 2         \* runs of the useAsyncData handler in one behaviour
MaxPushes == 2          \* updates delivered to one one-shot subscription
MaxResults == 2         \* distinct values the one-shot subscriptions deliver

ExecIds == 1..MaxFetches
ResultValues == 1..MaxResults
QB == 1                 \* the binding whose fetches are followed

\* A run of the handler that has not happened.  state: "free", "skipped"
\* (returned undefined), "failed" (threw) or "called" (went through
\* executeQueryViaSubscription); open: its onUpdate subscription is open;
\* resolved: the flag of executeQueryViaSubscription; result: what its
\* promise resolved with; unsubs: calls of its unsubscribe; pushes: calls of
\* its callback.
FreeExec == [state |-> "free", open |-> FALSE, resolved |-> FALSE,
             result |-> NoData, unsubs |-> 0, pushes |-> 0]

\* An executeQueryViaSubscription that gives up at once: its promise is
\* settled before any result has arrived.
executeQueryViaSubscription_settlesEmpty ==
    [state |-> "called", open |-> FALSE, resolved |-> TRUE,
     result |-> NoData, unsubs |-> 1, pushes |-> 0]

\* executeQueryViaSubscription(convex, query, args) up to the return of its
\* promise: one subscription is open and nothing has resolved.
executeQueryViaSubscription ==
    [state |-> "called", open |-> TRUE, resolved |-> FALSE,
     result |-> NoData, unsubs |-> 0, pushes |-> 0]

\* The onUpdate callback without its resolved flag.
onUpdateCallback_unguarded(e, v) ==
    [e EXCEPT !.resolved = TRUE, !.open = FALSE, !.unsubs = @ + 1,
              !.result = v, !.pushes = @ + 1]

\* The onUpdate callback of executeQueryViaSubscription, called with the
\* result v on the run e.
onUpdateCallback(e, v) ==
    IF ~e.resolved
    THEN [e EXCEPT !.resolved = TRUE, !.open = FALSE, !.unsubs = @ + 1,
                   !.result = v, !.pushes = @ + 1]
    ELSE [e EXCEPT !.pushes = @ + 1]

\* The useAsyncData handler run on the client with the args value a.
handler(a) ==
    IF isSkip(a) THEN [FreeExec EXCEPT !.state = "skipped"]
    ELSE IF ~hasClient THEN [FreeExec EXCEPT !.state = "failed"]
    ELSE executeQueryViaSubscription

\* asyncData.status once useAsyncData has started the run e of the handler
\* and the run has returned or thrown, or waits for its first result.
statusAfter(e) ==
    IF e.state = "skipped" THEN "success"
    ELSE IF e.state = "failed" THEN "error"
    ELSE "pending"

UsedExecs(X) == { i \in ExecIds : X[i].state # "free" }
LastExec(X) == Cardinality(UsedExecs(X))

\* The fetches before a binding exists.
FetchIdle ==
    /\ status = "idle"
    /\ execs = [i \in ExecIds |-> FreeExec]

\* ------------------------------------------------ the handler step by step
MaxRuns == 2            \* runs of the useAsyncData handler in one behaviour
MaxEnsure == 2          \* calls of ensureClient in one behaviour

RunIds == 1..MaxRuns

\* What fetchAuthToken resolves to: nothing, an empty string, or a token.
EmptyToken == ""
AuthTokens == {"jwt"}

\* The Authorization header of a request: absent, or Bearer <token>.
NoHeader == <<>>
Bearer(t) == <<"Bearer", t>>

\* A header builder that never attaches the token.
authorizationHeader_never(authToken) == NoHeader

\* executeQueryHttp, lines 59-62: `if (authToken)` is false for undefined,
\* null and the empty string; otherwise the header is Bearer <authToken>.
authorizationHeader(authToken) ==
    IF authToken = NoToken \/ authToken = EmptyToken
    THEN NoHeader
    ELSE Bearer(authToken)

\* fetchAuthToken({isPublic, cookieHeader, siteUrl}): a public query gets no
\* token; otherwise the token of the session, when there is one.
fetchAuthToken(isPublic) ==
    IF isPublic THEN {NoToken} ELSE {NoToken, EmptyToken} \cup AuthTokens

\* What $fetch does with the one request: it throws, or it resolves to the
\* error envelope or to the success envelope of the Convex HTTP API.
HttpResponses == {"throw", "error", "success"}

\* A parser that takes every envelope for a value.
parseConvexResponse_lenient(r) == "value"

\* parseConvexResponse: an error envelope throws an error carrying its
\* message, a success envelope gives its value.
parseConvexResponse(r) ==
    IF r = "error" THEN "ApplicationError" ELSE "value"

\* An executeQueryHttp that swallows what $fetch throws.
executeQueryHttpEnd_swallows(r) ==
    IF r = "throw" THEN "value" ELSE parseConvexResponse(r)

\* How executeQueryHttp ends (lines 64-70): a throw of $fetch propagates,
\* anything else goes through the parser.
executeQueryHttpEnd(r) ==
    IF r = "throw" THEN "TransportError" ELSE parseConvexResponse(r)

FreeRun == [pc |-> "free", skip |-> FALSE, pub |-> FALSE, token |-> NoToken,
            tokenFetches |-> 0, sent |-> <<>>, resp |-> "none",
            onUpdates |-> 0, outcome |-> "none"]

\* A handler that starts its work before it looks at the URL.
handlerStart_urlUnchecked(a, isPublic, url, onServer, client) ==
    LET r == [FreeRun EXCEPT !.skip = isSkip(a), !.pub = isPublic] IN
    IF isSkip(a)
    THEN [r EXCEPT !.pc = "done", !.outcome = "undefined"]
    ELSE IF onServer
    THEN [r EXCEPT !.pc = "token", !.tokenFetches = 1]
    ELSE IF ~client
    THEN [r EXCEPT !.pc = "done", !.outcome = "ClientUnavailable"]
    ELSE [r EXCEPT !.pc = "subscribed", !.onUpdates = 1]

\* The handler up to its first await (lines 176-212): skip returns undefined;
\* a missing URL throws; on the server fetchAuthToken is called; on the
\* client a missing client throws, otherwise convex.onUpdate is called.
handlerStart(a, isPublic, url, onServer, client) ==
    LET r == [FreeRun EXCEPT !.skip = isSkip(a), !.pub = isPublic] IN
    IF isSkip(a)
    THEN [r EXCEPT !.pc = "done", !.outcome = "undefined"]
    ELSE IF ~url
    THEN [r EXCEPT !.pc = "done", !.outcome = "ConfigurationError"]
    ELSE IF onServer
    THEN [r EXCEPT !.pc = "token", !.tokenFetches = 1]
    ELSE IF ~client
    THEN [r EXCEPT !.pc = "done", !.outcome = "ClientUnavailable"]
    ELSE [r EXCEPT !.pc = "subscribed", !.onUpdates = 1]

\* The operations that go through ensureClient.
OperationTypes == {"mutation", "action"}

\* An ensureClient that lets every call through.
ensureClient_neverThrows(client, operationType) == "returned"

\* ensureClient (shared-helpers.ts, 187-194): throws ClientOnlyError when
\* the client is missing.
ensureClient(client, operationType) ==
    IF ~client THEN "ClientOnlyError" ELSE "returned"

\* No handler has run and ensureClient was not called.
HandlerIdle ==
    /\ server = FALSE
    /\ convexUrl = TRUE
    /\ runs = [i \in RunIds |-> FreeRun]
    /\ opLog = <<>>

\* ------------------------------------------------------------ pure helpers
\* typeof v.
typeof(v) ==
    CASE v[1] \in {"number", "nan"} -> "number"
      [] v[1] \in {"string", "skip"} -> "string"
      [] v[1] = "boolean" -> "boolean"
      [] v[1] = "undefined" -> "undefined"
      [] OTHER -> "object"

\* v == null: null or undefined.
isNullish(v) == v[1] \in {"null", "undefined"}
isArray(v) == v[1] = "array"
isReference(v) == v[1] \in {"obj", "array", "$integer"}

\* a === b, where same says that a and b are one and the same object:
\* objects are equal by identity, NaN equals nothing, other primitives are
\* equal by kind and value.
strictEquals(a, b, same) ==
    IF isReference(a) \/ isReference(b) THEN same
    ELSE IF a[1] = "nan" \/ b[1] = "nan" THEN FALSE
    ELSE a[1] = b[1] /\ a = b

\* The own properties of an object, as (name, value) pairs.
Properties(v) ==
    IF v[1] = "$integer"
    THEN << <<"$integer", Str(NumberToString(v[2]))>> >>
    ELSE v[2]

ObjectKeys(v) == { Properties(v)[i][1] : i \in 1..Len(Properties(v)) }
GetProperty(v, k) ==
    LET ps == PairsNamed(Properties(v), k) IN ps[Len(ps)][2]

RECURSIVE deepEqual(_, _, _)
\* deepEqual(a, b) of shared-helpers.ts; same says that a and b are one and
\* the same object (the parts of two different objects are different
\* objects).
deepEqual(a, b, same) ==
    IF strictEquals(a, b, same) THEN TRUE
    ELSE IF isNullish(a) \/ isNullish(b) THEN strictEquals(a, b, same)
    ELSE IF typeof(a) # typeof(b) THEN FALSE
    ELSE IF isArray(a) /\ isArray(b)
    THEN /\ Len(a[2]) = Len(b[2])
         /\ \A i \in 1..Len(a[2]) : deepEqual(a[2][i], b[2][i], FALSE)
    ELSE IF typeof(a) = "object" /\ typeof(b) = "object"
    THEN /\ isArray(a) = isArray(b)
         /\ Cardinality(ObjectKeys(a)) = Cardinality(ObjectKeys(b))
         /\ \A k \in ObjectKeys(a) :
                /\ k \in ObjectKeys(b)
                /\ deepEqual(GetProperty(a, k), GetProperty(b, k), FALSE)
    ELSE FALSE

\* obj[key]: undefined when the object has no such property.
PropertyOf(v, k) ==
    IF k \in ObjectKeys(v) THEN GetProperty(v, k) ELSE Undefined

\* An argsMatch that compares the skipped keys too.
argsMatch_ignoresSkipKeys(queryArgs, filterArgs, skipKeys) ==
    \A i \in 1..Len(Properties(filterArgs)) :
        LET key == Properties(filterArgs)[i][1]
        IN deepEqual(PropertyOf(filterArgs, key),
                     PropertyOf(queryArgs, key), FALSE)

RECURSIVE ArgsMatchFrom(_, _, _, _)
\* The loop of argsMatch over Object.keys(filterArgs), from the i-th key on
\* (shared-helpers.ts, 79-90).
ArgsMatchFrom(queryArgs, filterArgs, skipKeys, i) ==
    IF i > Len(Properties(filterArgs)) THEN TRUE
    ELSE LET key == Properties(filterArgs)[i][1]
         IN IF key \in skipKeys
            THEN ArgsMatchFrom(queryArgs, filterArgs, skipKeys, i + 1)
            ELSE IF ~deepEqual(PropertyOf(filterArgs, key),
                               PropertyOf(queryArgs, key), FALSE)
            THEN FALSE
            ELSE ArgsMatchFrom(queryArgs, filterArgs, skipKeys, i + 1)

\* argsMatch(queryArgs, filterArgs, skipKeys) of shared-helpers.ts.
argsMatch(queryArgs, filterArgs, skipKeys) ==
    ArgsMatchFrom(queryArgs, filterArgs, skipKeys, 1)

\* The characters of the strings compared, in the order the collation of
\* localeCompare gives them: space, punctuation, digits, letters.
CollationOrder ==
    <<" ", "-", ",", "[", "]",
      "0", "1", "2", "3", "4", "5", "6", "7", "8", "9",
      "a", "b", "c", "d", "e", "f", "i", "j", "k", "l", "n", "N", "o", "O",
      "p", "r", "s", "t", "u">>

Rank(c) == CHOOSE k \in 1..Len(CollationOrder) : CollationOrder[k] = c

RECURSIVE LocaleCompareFrom(_, _, _)
LocaleCompareFrom(s, t, i) ==
    IF i > Len(s) /\ i > Len(t) THEN 0
    ELSE IF i > Len(s) THEN -1
    ELSE IF i > Len(t) THEN 1
    ELSE IF Rank(s[i]) < Rank(t[i]) THEN -1
    ELSE IF Rank(s[i]) > Rank(t[i]) THEN 1
    ELSE LocaleCompareFrom(s, t, i + 1)

\* s.localeCompare(t): -1, 0 or 1 by the first position where the two
\* strings differ.
localeCompare(s, t) == LocaleCompareFrom(s, t, 1)

RECURSIVE StringOf(_)
RECURSIVE Join(_, _)
\* Array.prototype.join(','): null and undefined elements give nothing.
Join(elems, i) ==
    IF i > Len(elems) THEN <<>>
    ELSE (IF i = 1 THEN <<>> ELSE <<",">>)
         \o (IF isNullish(elems[i]) THEN <<>> ELSE StringOf(elems[i]))
         \o Join(elems, i + 1)

\* String(v).
StringOf(v) ==
    CASE v[1] = "number" -> NumberToString(v[2])
      [] v[1] = "string" -> v[2]
      [] v[1] = "skip" -> <<"s", "k", "i", "p">>
      [] v[1] = "boolean" ->
             IF v[2] THEN <<"t", "r", "u", "e">>
             ELSE <<"f", "a", "l", "s", "e">>
      [] v[1] = "array" -> Join(v[2], 1)
      [] v[1] = "nan" -> <<"N", "a", "N">>
      [] v[1] = "null" -> <<"n", "u", "l", "l">>
      [] v[1] = "undefined" ->
             <<"u", "n", "d", "e", "f", "i", "n", "e", "d">>
      [] OTHER -> <<"[", "o", "b", "j", "e", "c", "t", " ",
                    "O", "b", "j", "e", "c", "t", "]">>

\* a[i] of an array: undefined past its end.
ElementAt(elems, i) == IF i <= Len(elems) THEN elems[i] ELSE Undefined

RECURSIVE compareJsonValues(_, _)
RECURSIVE CompareElements(_, _, _)
\* The loop over the elements of two arrays (shared-helpers.ts, 108-111).
CompareElements(x, y, i) ==
    IF i > Len(x) /\ i > Len(y) THEN 0
    ELSE LET comparison == compareJsonValues(ElementAt(x, i), ElementAt(y, i))
         IN IF comparison # 0 THEN comparison
            ELSE CompareElements(x, y, i + 1)

\* compareJsonValues(a, b) of shared-helpers.ts.
compareJsonValues(a, b) ==
    IF isArray(a) /\ isArray(b) THEN CompareElements(a[2], b[2], 1)
    ELSE IF isNullish(a) /\ isNullish(b) THEN 0
    ELSE IF isNullish(a) THEN -1
    ELSE IF isNullish(b) THEN 1
    ELSE IF a[1] = "number" /\ b[1] = "number" THEN a[2] - b[2]
    ELSE IF typeof(a) = "string" /\ typeof(b) = "string"
    THEN localeCompare(StringOf(a), StringOf(b))
    ELSE IF a[1] = "boolean" /\ b[1] = "boolean"
    THEN (IF a[2] THEN 1 ELSE 0) - (IF b[2] THEN 1 ELSE 0)
    ELSE IF a[1] = "$integer" /\ b[1] = "$integer" THEN a[2] - b[2]
    ELSE localeCompare(StringOf(a), StringOf(b))

\* Nested argument mappings: {a:1, b:{a:[1,2], b:"a"}}, the same mapping
\* with the keys inserted in the other order at both depths, and one whose
\* array has its elements in the other order.
Nested1 ==
    Obj(<< <<"a", Num(1)>>,
           <<"b", Obj(<< <<"a", Arr(<<Num(1), Num(2)>>)>>,
                         <<"b", Str(<<"a">>)>> >>)>> >>)
Nested2 ==
    Obj(<< <<"b", Obj(<< <<"b", Str(<<"a">>)>>,
                         <<"a", Arr(<<Num(1), Num(2)>>)>> >>)>>,
           <<"a", Num(1)>> >>)
Nested3 ==
    Obj(<< <<"a", Num(1)>>,
           <<"b", Obj(<< <<"a", Arr(<<Num(2), Num(1)>>)>>,
                         <<"b", Str(<<"a">>)>> >>)>> >>)

\* The args values keys are derived for.
ArgSamples == ArgChoices \cup {Nested1, Nested2, Nested3}

\* The values of convexToJson that are compared.
JsonSamples ==
    { Undefined, Null, Num(2), Num(5), Num(10),
      Str(<<"1", "0">>), Str(<<"a">>), Bool(TRUE), Bool(FALSE),
      BigInt(7), BigInt(9),
      Arr(<<Num(2)>>), Arr(<<Num(2), Num(5)>>), Arr(<<Null, Num(5)>>) }

\* More mappings for argsMatch: the empty one, one with a single key, one
\* whose only property is undefined, one that holds NaN.
MatchSamples ==
    { Obj(<<>>),
      Obj(<< <<"a", Num(1)>> >>),
      Obj(<< <<"b", Undefined>> >>),
      Obj(<< <<"a", NaN>> >>) }

\* The values the helpers are applied to.
Samples == ArgSamples \cup JsonSamples \cup MatchSamples \cup {NaN}

\* No helper has been applied.
PureIdle ==
    /\ px = Undefined
    /\ py = Undefined
    /\ pz = Undefined
    /\ pres = <<"none">>

\* ---------------------------------------------------------- client plugin
MaxPluginRuns == 3      \* runs of the client plugin on one app (hot reload)

\* Nothing created yet: the ConvexClients and auth clients made, the calls
\* of client.setAuth and of nuxtApp.provide.
NothingMade == [clients |-> 0, authClients |-> 0, setAuths |-> 0,
                provides |-> 0]

\* siteUrl of the plugin: the configured one, or else the Convex URL with
\* its host suffix replaced (plugin.client.ts, 52-55).
siteUrlSet(configSite, url) == configSite \/ url

\* A plugin body without the _convexInitialized test.
pluginSetup_unguarded(init, url, configSite, m) ==
    IF ~url THEN [initialized |-> TRUE, made |-> m, provided |-> FALSE]
    ELSE LET auth == siteUrlSet(configSite, url)
             n == IF auth THEN 1 ELSE 0
         IN [initialized |-> TRUE,
             made |-> [clients |-> m.clients + 1,
                       authClients |-> m.authClients + n,
                       setAuths |-> m.setAuths + n,
                       provides |-> m.provides + 1 + n],
             provided |-> TRUE]

\* The body of the client plugin (plugin.client.ts, 36-215): return when
\* the app is initialised already; mark it; return without the URL; create
\* the client; with a site URL create the auth client and call setAuth;
\* provide the clients.
pluginSetup(init, url, configSite, m) ==
    IF init THEN [initialized |-> TRUE, made |-> m, provided |-> FALSE]
    ELSE IF ~url THEN [initialized |-> TRUE, made |-> m, provided |-> FALSE]
    ELSE LET auth == siteUrlSet(configSite, url)
             n == IF auth THEN 1 ELSE 0
         IN [initialized |-> TRUE,
             made |-> [clients |-> m.clients + 1,
                       authClients |-> m.authClients + n,
                       setAuths |-> m.setAuths + n,
                       provides |-> m.provides + 1 + n],
             provided |-> TRUE]

\* The plugin has not run.
PluginIdle ==
    /\ initialized = FALSE
    /\ configSiteUrl = FALSE
    /\ pluginRuns = 0
    /\ made = NothingMade

\* ------------------------------------------------------------- auth proxy
\* URLs and origins are strings written as sequences of their parts; a
\* missing header is null, a missing setting undefined.
SiteOrigin == Str(<<"https://", "site.convex.site">>)
AppOrigin == Str(<<"https://", "app.example.com">>)
PreviewOrigin == Str(<<"https://", "preview-", "pr1", ".vercel.app">>)
EvilOrigin == Str(<<"https://", "evil.example">>)
LookalikeOrigin ==
    Str(<<"https://", "preview-", "pr1", ".vercel.app", ".evil.example">>)
PreviewPattern == Str(<<"https://", "preview-", "*", ".vercel.app">>)

\* config.public.convex.siteUrl: unset, empty, the site, the site with a
\* path, and a string that is no URL.
SiteUrls ==
    { Undefined, Str(<<>>), SiteOrigin,
      Str(<<"https://", "site.convex.site", "/", "base">>),
      Str(<<"site.convex.site">>) }

\* config.public.convex.trustedOrigins.
TrustedLists ==
    { <<>>, <<AppOrigin>>, <<PreviewPattern>>, <<AppOrigin, PreviewPattern>> }

\* The Origin header of a request.
RequestOrigins ==
    { Null, Str(<<>>), SiteOrigin, AppOrigin, PreviewOrigin, EvilOrigin,
      LookalikeOrigin }

Methods == {"OPTIONS", "GET", "POST"}

\* A string is truthy unless it is missing or empty.
isSet(v) == v[1] = "string" /\ v[2] # <<>>

\* The parts of a URL before its path.
RECURSIVE BeforePath(_, _)
BeforePath(parts, i) ==
    IF i > Len(parts) \/ parts[i] = "/" THEN <<>>
    ELSE <<parts[i]>> \o BeforePath(parts, i + 1)

\* new URL(siteUrl).origin; null stands for the TypeError of a string that
\* is no URL.
urlOrigin(url) ==
    IF Len(url[2]) >= 2 /\ url[2][1] = "https://"
    THEN Str(BeforePath(url[2], 1))
    ELSE Null

RECURSIVE WildcardTest_unanchored(_, _, _, _)
\* A pattern test without the closing anchor: the text may go on after
\* the pattern.
WildcardTest_unanchored(pattern, text, i, j) ==
    IF i > Len(pattern) THEN TRUE
    ELSE IF pattern[i] = "*"
    THEN \/ WildcardTest_unanchored(pattern, text, i + 1, j)
         \/ j <= Len(text) /\ WildcardTest_unanchored(pattern, text, i, j + 1)
    ELSE /\ j <= Len(text)
         /\ pattern[i] = text[j]
         /\ WildcardTest_unanchored(pattern, text, i + 1, j + 1)

RECURSIVE WildcardTest(_, _, _, _)
\* new RegExp(`^${pattern}$`).test(origin) for the pattern made of the
\* trusted entry (part_001, 341-346): every part but * stands for itself,
\* * for any run of parts; the pattern from part i on against the text
\* from part j on.
WildcardTest(pattern, text, i, j) ==
    IF i > Len(pattern) THEN j > Len(text)
    ELSE IF pattern[i] = "*"
    THEN \/ WildcardTest(pattern, text, i + 1, j)
         \/ j <= Len(text) /\ WildcardTest(pattern, text, i, j + 1)
    ELSE /\ j <= Len(text)
         /\ pattern[i] = text[j]
         /\ WildcardTest(pattern, text, i + 1, j + 1)

\* trusted.includes('*').
hasWildcard(trusted) == \E i \in 1..Len(trusted[2]) : trusted[2][i] = "*"

\* isOriginAllowed(origin, siteUrl, trustedOrigins) of the auth proxy.
isOriginAllowed(origin, siteUrl, trustedOrigins) ==
    \/ isSet(siteUrl) /\ urlOrigin(siteUrl) # Null
          /\ origin = urlOrigin(siteUrl)
    \/ \E k \in 1..Len(trustedOrigins) :
          IF hasWildcard(trustedOrigins[k])
          THEN WildcardTest(trustedOrigins[k][2], origin[2], 1, 1)
          ELSE origin = trustedOrigins[k]

\* What was done with a request: the status, the header
\* Access-Control-Allow-Origin, whether proxyRequest was called.
NoResponse == [method |-> "none", origin |-> Null, status |-> 0,
               allowOrigin |-> Null, forwarded |-> FALSE]

\* The event handler of the auth proxy (part_001, 356-425) for a request
\* with the given method and Origin header; upstream says whether
\* proxyRequest succeeds.
authProxy(cfg, method, origin, upstream) ==
    LET allowed == /\ isSet(origin)
                   /\ isOriginAllowed(origin, cfg.siteUrl,
                                       cfg.trustedOrigins)
        r == [NoResponse EXCEPT !.method = method, !.origin = origin]
    IN IF ~isSet(cfg.siteUrl) THEN [r EXCEPT !.status = 500]
       ELSE IF method = "OPTIONS"
       THEN IF ~allowed THEN [r EXCEPT !.status = 403]
            ELSE [r EXCEPT !.status = 204, !.allowOrigin = origin]
       ELSE [r EXCEPT !.status = IF upstream THEN 200 ELSE 502,
                      !.allowOrigin = IF allowed THEN origin ELSE Null,
                      !.forwarded = TRUE]

\* The proxy has handled no request.
ProxyIdle ==
    /\ proxyConfig = [siteUrl |-> Undefined, trustedOrigins |-> <<>>]
    /\ response = NoResponse

\* ------------------------------------------------------------ instance ids
MaxObjects == 3         \* objects that ask for an instance id
MaxIssues == 4          \* calls of getInstanceId and generatePaginationId

Objects == 1..MaxObjects
NoId == 0               \* instanceIdMap.get(instance) is undefined

\* A getInstanceId that does not remember the id it gave.
getInstanceId_noStore(instance, counter, map) ==
    IF map[instance] = NoId
    THEN [id |-> counter + 1, counter |-> counter + 1, map |-> map]
    ELSE [id |-> map[instance], counter |-> counter, map |-> map]

\* getInstanceId(instance): the id, the counter and the map after the call
\* (shared-helpers.ts, 316-323).
getInstanceId(instance, counter, map) ==
    IF map[instance] = NoId
    THEN [id |-> counter + 1, counter |-> counter + 1,
          map |-> [map EXCEPT ![instance] = counter + 1]]
    ELSE [id |-> map[instance], counter |-> counter, map |-> map]

\* generatePaginationId(): the id and the counter after the call
\* (shared-helpers.ts, 331-333).
generatePaginationId(counter) ==
    [id |-> counter + 1, counter |-> counter + 1]

\* The module has been loaded; no id has been asked for.
IdIdle ==
    /\ globalInstanceCounter = 0
    /\ instanceIdMap = [o \in Objects |-> NoId]
    /\ issued = <<>>

\* ------------------------------------------------------------------- Init
BridgeInit ==
    /\ hasClient \in BOOLEAN
    /\ bstatus = [b \in Bindings |-> "new"]
    /\ subscribe = [b \in Bindings |-> TRUE]
    /\ args = [b \in Bindings |-> SkipArgs]
    /\ watchOld = [b \in Bindings |-> SkipArgs]
    /\ asyncKey = [b \in Bindings |-> getCacheKey(SkipArgs)]
    /\ unsubscribeFn = [b \in Bindings |-> NoSub]
    /\ subs = [s \in SubIds |-> FreeSub]
    /\ registry = [k \in AllKeys |-> NoSub]
    /\ asyncData = [k \in DataKeys |-> NoData]
    /\ regLog = <<>>

Init ==
    /\ BridgeInit
    /\ TokenIdle
    /\ FetchIdle
    /\ HandlerIdle
    /\ PureIdle
    /\ PluginIdle
    /\ ProxyIdle
    /\ IdIdle

\* ---------------------------------------------------------------- actions
\* A component calls useConvexQuery(query, args, {subscribe: sub}) with the
\* args ref holding a.
Mount(b, a, sub) ==
    /\ bstatus[b] = "new"
    /\ (sub /\ OpensSubscription(a, registry)) => FreeSubs(subs) # {}
    /\ LET r == IF sub
                THEN setupSubscription(b, a, NoSub, subs, registry)
                ELSE [unsub |-> NoSub, subs |-> subs, reg |-> registry]
       IN /\ unsubscribeFn' = [unsubscribeFn EXCEPT ![b] = r.unsub]
          /\ subs' = r.subs
          /\ registry' = r.reg
    /\ bstatus' = [bstatus EXCEPT ![b] = "mounted"]
    /\ subscribe' = [subscribe EXCEPT ![b] = sub]
    /\ args' = [args EXCEPT ![b] = a]
    /\ watchOld' = [watchOld EXCEPT ![b] = a]
    /\ asyncKey' = [asyncKey EXCEPT ![b] = getCacheKey(a)]
    /\ UNCHANGED <<hasClient, asyncData, regLog>>
    /\ UNCHANGED <<tokenVars, fetchVars>>
    /\ UNCHANGED <<handlerVars, pureVars, pluginVars, proxyVars, idVars>>

\* The caller assigns a new value to the args ref of a mounted binding.  The
\* args watcher of a subscribing binding is queued and runs later
\* (ArgsWatcher); a binding without the subscription bridge has no watcher.
SetArgs(b, a) ==
    /\ bstatus[b] = "mounted"
    /\ a # args[b]
    /\ args' = [args EXCEPT ![b] = a]
    /\ watchOld' = IF subscribe[b] THEN watchOld
                   ELSE [watchOld EXCEPT ![b] = a]
    /\ UNCHANGED <<hasClient, bstatus, subscribe, asyncKey, unsubscribeFn,
                   subs, registry, asyncData, regLog>>
    /\ UNCHANGED <<tokenVars, fetchVars>>
    /\ UNCHANGED <<handlerVars, pureVars, pluginVars, proxyVars, idVars>>

\* The args watcher of binding b runs with (newArgs, oldArgs).
ArgsWatcher(b) ==
    /\ bstatus[b] = "mounted"
    /\ subscribe[b]
    /\ args[b] # watchOld[b]
    /\ LET newArgs == args[b]
           oldArgs == watchOld[b]
           changed == argsChanged(newArgs, oldArgs)
           c == cleanupSubscription(registry, subs, oldCacheKey(oldArgs))
           r == IF isSkip(newArgs)
                THEN [unsub |-> NoSub, subs |-> c.subs, reg |-> c.reg]
                ELSE setupSubscription(b, newArgs, NoSub, c.subs, c.reg)
       IN IF changed
          THEN /\ (~isSkip(newArgs) /\ OpensSubscription(newArgs, c.reg))
                      => FreeSubs(subs) # {}
               /\ unsubscribeFn' = [unsubscribeFn EXCEPT ![b] = r.unsub]
               /\ subs' = r.subs
               /\ registry' = r.reg
          ELSE UNCHANGED <<unsubscribeFn, subs, registry>>
    /\ watchOld' = [watchOld EXCEPT ![b] = args[b]]
    /\ UNCHANGED <<hasClient, bstatus, subscribe, args, asyncKey, asyncData,
                   regLog>>
    /\ UNCHANGED <<tokenVars, fetchVars>>
    /\ UNCHANGED <<handlerVars, pureVars, pluginVars, proxyVars, idVars>>

\* The component of binding b unmounts: its watcher is stopped, also when
\* a change of its args is still waiting for the watcher to run (the args
\* changed in the update that removes the component), and its onUnmounted
\* hook runs.
Unmount(b) ==
    /\ bstatus[b] = "mounted"
    /\ bstatus' = [bstatus EXCEPT ![b] = "unmounted"]
    /\ IF subscribe[b] /\ unsubscribeFn[b] # NoSub
       THEN /\ registry' = removeFromSubscriptionCache(registry,
                                                      getCacheKey(args[b]))
            /\ subs' = Unsubscribed(subs, unsubscribeFn[b])
            /\ unsubscribeFn' = [unsubscribeFn EXCEPT ![b] = NoSub]
       ELSE UNCHANGED <<registry, subs, unsubscribeFn>>
    /\ UNCHANGED <<hasClient, subscribe, args, watchOld, asyncKey, asyncData,
                   regLog>>
    /\ UNCHANGED <<tokenVars, fetchVars>>
    /\ UNCHANGED <<handlerVars, pureVars, pluginVars, proxyVars, idVars>>

\* The live feed of the open subscription s pushes the value v: the onUpdate
\* callback writes it to the data ref of the binding that opened s.
Push(s, v) ==
    /\ subs[s].state = "open"
    /\ asyncData' = [asyncData EXCEPT ![asyncKey[subs[s].owner]] = v]
    /\ UNCHANGED <<hasClient, bstatus, subscribe, args, watchOld, asyncKey,
                   unsubscribeFn, subs, registry, regLog>>
    /\ UNCHANGED <<tokenVars, fetchVars>>
    /\ UNCHANGED <<handlerVars, pureVars, pluginVars, proxyVars, idVars>>

Next ==
    \/ \E b \in Bindings, a \in ArgChoices, sub \in BOOLEAN : Mount(b, a, sub)
    \/ \E b \in Bindings, a \in ArgChoices : SetArgs(b, a)
    \/ \E b \in Bindings : ArgsWatcher(b)
    \/ \E b \in Bindings : Unmount(b)
    \/ \E s \in SubIds, v \in DataValues : Push(s, v)

Spec == Init /\ [][Next]_vars

\* ------------------------------------------- the subscription cache alone
\* The cache helpers called one at a time by a caller that opens a
\* subscription and registers it without looking at hasSubscription first,
\* cleans a key up, or removes a key's entry.  regLog records the calls:
\* <<kind, key, subscription>>.
RegKeys == CacheKeys

RegInit ==
    /\ Init
    /\ hasClient

RegRegister(k) ==
    /\ Len(regLog) < MaxOps
    /\ FreeSubs(subs) # {}
    /\ LET s == NextSub(subs)
       IN /\ subs' = [subs EXCEPT ![s] = [state |-> "open", key |-> k,
                                         owner |-> 0, teardowns |-> 0]]
          /\ registry' = registerSubscription(registry, k, s)
          /\ regLog' = Append(regLog, <<"register", k, s>>)
    /\ UNCHANGED <<hasClient, bstatus, subscribe, args, watchOld, asyncKey,
                   unsubscribeFn, asyncData>>
    /\ UNCHANGED <<tokenVars, fetchVars>>
    /\ UNCHANGED <<handlerVars, pureVars, pluginVars, proxyVars, idVars>>

RegCleanup(k) ==
    /\ Len(regLog) < MaxOps
    /\ LET c == cleanupSubscription(registry, subs, k)
       IN /\ registry' = c.reg
          /\ subs' = c.subs
    /\ regLog' = Append(regLog, <<"cleanup", k, NoSub>>)
    /\ UNCHANGED <<hasClient, bstatus, subscribe, args, watchOld, asyncKey,
                   unsubscribeFn, asyncData>>
    /\ UNCHANGED <<tokenVars, fetchVars>>
    /\ UNCHANGED <<handlerVars, pureVars, pluginVars, proxyVars, idVars>>

RegRemove(k) ==
    /\ Len(regLog) < MaxOps
    /\ registry' = removeFromSubscriptionCache(registry, k)
    /\ regLog' = Append(regLog, <<"remove", k, NoSub>>)
    /\ UNCHANGED <<hasClient, bstatus, subscribe, args, watchOld, asyncKey,
                   unsubscribeFn, subs, asyncData>>
    /\ UNCHANGED <<tokenVars, fetchVars>>
    /\ UNCHANGED <<handlerVars, pureVars, pluginVars, proxyVars, idVars>>

RegNext ==
    \/ \E k \in RegKeys : RegRegister(k)
    \/ \E k \in RegKeys : RegCleanup(k)
    \/ \E k \in RegKeys : RegRemove(k)

RegSpec == RegInit /\ [][RegNext]_vars

\* --------------------------------------------- one binding and its fetches
\* The binding QB alone, with the runs of its useAsyncData handler.
NoBridge == [unsub |-> NoSub, subs |-> subs, reg |-> registry]

\* The component calls useConvexQuery(query, args, {subscribe: sub}) with the
\* args ref holding a: useAsyncData runs the handler at once, then the
\* composable sets up the subscription bridge.
UseConvexQuery(a, sub) ==
    /\ bstatus[QB] = "new"
    /\ (sub /\ OpensSubscription(a, registry)) => FreeSubs(subs) # {}
    /\ LET e == handler(a)
           r == IF sub THEN setupSubscription(QB, a, NoSub, subs, registry)
                ELSE NoBridge
       IN /\ execs' = [execs EXCEPT ![1] = e]
          /\ status' = statusAfter(e)
          /\ asyncData' = IF e.state = "called" THEN asyncData
                          ELSE [asyncData EXCEPT ![getCacheKey(a)] = NoData]
          /\ unsubscribeFn' = [unsubscribeFn EXCEPT ![QB] = r.unsub]
          /\ subs' = r.subs
          /\ registry' = r.reg
    /\ bstatus' = [bstatus EXCEPT ![QB] = "mounted"]
    /\ subscribe' = [subscribe EXCEPT ![QB] = sub]
    /\ args' = [args EXCEPT ![QB] = a]
    /\ watchOld' = [watchOld EXCEPT ![QB] = a]
    /\ asyncKey' = [asyncKey EXCEPT ![QB] = getCacheKey(a)]
    /\ UNCHANGED <<hasClient, regLog, tokenVars>>
    /\ UNCHANGED <<handlerVars, pureVars, pluginVars, proxyVars, idVars>>

\* The caller assigns a new value to the args ref.
SetArgsRef(a) ==
    /\ bstatus[QB] = "mounted"
    /\ a # args[QB]
    /\ args' = [args EXCEPT ![QB] = a]
    /\ UNCHANGED <<hasClient, bstatus, subscribe, watchOld, asyncKey,
                   unsubscribeFn, subs, registry, asyncData, regLog,
                   tokenVars, fetchVars>>
    /\ UNCHANGED <<handlerVars, pureVars, pluginVars, proxyVars, idVars>>

\* The watchers of the args ref run: the one of useAsyncData (its watch
\* option) runs the handler again, then the one of the subscription bridge
\* runs, if the binding has the bridge.
FlushArgs ==
    /\ bstatus[QB] = "mounted"
    /\ args[QB] # watchOld[QB]
    /\ LastExec(execs) < MaxFetches
    /\ LET newArgs == args[QB]
           oldArgs == watchOld[QB]
           e == handler(newArgs)
           changed == subscribe[QB] /\ argsChanged(newArgs, oldArgs)
           c == cleanupSubscription(registry, subs, oldCacheKey(oldArgs))
           r == IF isSkip(newArgs)
                THEN [unsub |-> NoSub, subs |-> c.subs, reg |-> c.reg]
                ELSE setupSubscription(QB, newArgs, NoSub, c.subs, c.reg)
       IN /\ execs' = [execs EXCEPT ![LastExec(execs) + 1] = e]
          /\ status' = statusAfter(e)
          /\ asyncData' = IF e.state = "called" THEN asyncData
                          ELSE [asyncData EXCEPT ![asyncKey[QB]] = NoData]
          /\ IF changed
             THEN /\ (~isSkip(newArgs) /\ OpensSubscription(newArgs, c.reg))
                         => FreeSubs(subs) # {}
                  /\ unsubscribeFn' = [unsubscribeFn EXCEPT ![QB] = r.unsub]
                  /\ subs' = r.subs
                  /\ registry' = r.reg
             ELSE UNCHANGED <<unsubscribeFn, subs, registry>>
    /\ watchOld' = [watchOld EXCEPT ![QB] = args[QB]]
    /\ UNCHANGED <<hasClient, bstatus, subscribe, args, asyncKey, regLog,
                   tokenVars>>
    /\ UNCHANGED <<handlerVars, pureVars, pluginVars, proxyVars, idVars>>

\* The component unmounts: the onUnmounted hook of the bridge runs.
QueryUnmount ==
    /\ bstatus[QB] = "mounted"
    /\ bstatus' = [bstatus EXCEPT ![QB] = "unmounted"]
    /\ IF subscribe[QB] /\ unsubscribeFn[QB] # NoSub
       THEN /\ registry' = removeFromSubscriptionCache(registry,
                                                      getCacheKey(args[QB]))
            /\ subs' = Unsubscribed(subs, unsubscribeFn[QB])
            /\ unsubscribeFn' = [unsubscribeFn EXCEPT ![QB] = NoSub]
       ELSE UNCHANGED <<registry, subs, unsubscribeFn>>
    /\ UNCHANGED <<hasClient, subscribe, args, watchOld, asyncKey, asyncData,
                   regLog, tokenVars, fetchVars>>
    /\ UNCHANGED <<handlerVars, pureVars, pluginVars, proxyVars, idVars>>

\* The client calls the onUpdate callback of the run i of the handler with
\* the result v.  The first call resolves the promise of the run, and
\* useAsyncData stores the result: always when the run is the latest one,
\* and either way when a later run has superseded it.
FirstResult(i, v) ==
    /\ execs[i].state = "called"
    /\ execs[i].pushes < MaxPushes
    /\ execs' = [execs EXCEPT ![i] = onUpdateCallback(@, v)]
    /\ IF execs[i].pushes = 0
       THEN \E applied \in (IF i = LastExec(execs) THEN {TRUE} ELSE BOOLEAN) :
               IF applied
               THEN /\ status' = "success"
                    /\ asyncData' = [asyncData EXCEPT ![asyncKey[QB]] = v]
               ELSE UNCHANGED <<status, asyncData>>
       ELSE UNCHANGED <<status, asyncData>>
    /\ UNCHANGED <<hasClient, bstatus, subscribe, args, watchOld, asyncKey,
                   unsubscribeFn, subs, registry, regLog, tokenVars>>
    /\ UNCHANGED <<handlerVars, pureVars, pluginVars, proxyVars, idVars>>

\* The live feed of the open subscription s of the bridge pushes v.
LiveUpdate(s, v) ==
    /\ subs[s].state = "open"
    /\ asyncData' = [asyncData EXCEPT ![asyncKey[subs[s].owner]] = v]
    /\ UNCHANGED <<hasClient, bstatus, subscribe, args, watchOld, asyncKey,
                   unsubscribeFn, subs, registry, regLog, tokenVars,
                   fetchVars>>
    /\ UNCHANGED <<handlerVars, pureVars, pluginVars, proxyVars, idVars>>

QueryNext ==
    \/ \E a \in ArgChoices, sub \in BOOLEAN : UseConvexQuery(a, sub)
    \/ \E a \in ArgChoices : SetArgsRef(a)
    \/ FlushArgs
    \/ QueryUnmount
    \/ \E i \in ExecIds, v \in ResultValues : FirstResult(i, v)
    \/ \E s \in SubIds, v \in DataValues : LiveUpdate(s, v)

QuerySpec == Init /\ [][QueryNext]_vars

\* ------------------------------------------------------ useConvexStorageUrl
\* The component calls useConvexStorageUrl(getUrlQuery, storageId) with the
\* storageId ref holding id: useConvexQuery is called with the computed
\* args and its defaults (lines 87-95).
UseConvexStorageUrl(id) == UseConvexQuery(storageArgs(id), TRUE)

\* The storageId ref takes the value id; the computed args follow when
\* their value differs.
SetStorageId(id) == SetArgsRef(storageArgs(id))

\* No URL.
NullUrl == 0

\* The value of the computed that useConvexStorageUrl returns (line 97):
\* data.value ?? null.
storageUrl(data) == IF data = NoData THEN NullUrl ELSE data

StorageNext ==
    \/ \E id \in StorageIds : UseConvexStorageUrl(id)
    \/ \E id \in StorageIds : SetStorageId(id)
    \/ FlushArgs
    \/ QueryUnmount
    \/ \E i \in ExecIds, v \in ResultValues : FirstResult(i, v)
    \/ \E s \in SubIds, v \in DataValues : LiveUpdate(s, v)

StorageSpec == Init /\ [][StorageNext]_vars

\* ------------------------------------------------- the token fetcher alone
\* The plugin has run: the token and the user are what the server hydrated
\* (either may be missing), and lastTokenValidation is the time of the start.
TokenInit ==
    /\ BridgeInit
    /\ hasClient
    /\ FetchIdle
    /\ HandlerIdle
    /\ PureIdle
    /\ PluginIdle
    /\ ProxyIdle
    /\ IdIdle
    /\ variant \in Variants
    /\ convexToken \in Tokens \cup {NoToken}
    /\ convexUser \in {NoUser, "user:ssr"}
    /\ lastTokenValidation = 0
    /\ now = 0
    /\ calls = [c \in CallIds |-> FreeCall]

FreeCalls == { c \in CallIds : calls[c].pc = "free" }
NextCall == CHOOSE c \in FreeCalls : \A d \in FreeCalls : c <= d

\* The calls of fetchToken that wait for authClient.convex.token().
InFlight(C) == { c \in CallIds : C[c].pc = "awaiting" }

\* The Convex client calls fetchToken({forceRefreshToken: force}): the call
\* runs up to its return or up to its await.
CallFetchToken(force) ==
    /\ FreeCalls # {}
    /\ LET r == IF variant = "plugin.client"
                THEN fetchToken(convexToken, convexUser,
                                lastTokenValidation, now, force)
                ELSE fetchToken_part_002(convexToken, convexUser,
                                         lastTokenValidation, now, force)
       IN /\ lastTokenValidation' = r.last
          /\ calls' = [calls EXCEPT ![NextCall] =
                          [pc |-> IF r.path = "network" THEN "awaiting"
                                  ELSE "done",
                           force |-> force, tok |-> convexToken,
                           usr |-> convexUser, path |-> r.path,
                           ret |-> r.ret, at |-> now,
                           during |-> InFlight(calls)]]
    /\ UNCHANGED <<variant, convexToken, convexUser, now>>
    /\ UNCHANGED <<hasClient, bstatus, subscribe, args, watchOld, asyncKey,
                   unsubscribeFn, subs, registry, asyncData, regLog,
                   fetchVars>>
    /\ UNCHANGED <<handlerVars, pureVars, pluginVars, proxyVars, idVars>>

\* authClient.convex.token() settles with r for the call c, which runs to
\* its return.
TokenFetched(c, r) ==
    /\ calls[c].pc = "awaiting"
    /\ LET res == IF variant = "plugin.client"
                  THEN fetchTokenResume(r, convexToken, convexUser,
                                        lastTokenValidation, now)
                  ELSE fetchTokenResume_part_002(r, convexToken, convexUser,
                                                 lastTokenValidation, now)
       IN /\ convexToken' = res.token
          /\ convexUser' = res.user
          /\ lastTokenValidation' = res.last
          /\ calls' = [calls EXCEPT ![c] = [@ EXCEPT !.pc = "done",
                                                     !.ret = res.ret]]
    /\ UNCHANGED <<variant, now>>
    /\ UNCHANGED <<hasClient, bstatus, subscribe, args, watchOld, asyncKey,
                   unsubscribeFn, subs, registry, asyncData, regLog,
                   fetchVars>>
    /\ UNCHANGED <<handlerVars, pureVars, pluginVars, proxyVars, idVars>>

\* Time passes.
Tick ==
    /\ now + TickMs <= MaxTicks * TickMs
    /\ now' = now + TickMs
    /\ UNCHANGED <<variant, convexToken, convexUser, lastTokenValidation,
                   calls>>
    /\ UNCHANGED <<hasClient, bstatus, subscribe, args, watchOld, asyncKey,
                   unsubscribeFn, subs, registry, asyncData, regLog,
                   fetchVars>>
    /\ UNCHANGED <<handlerVars, pureVars, pluginVars, proxyVars, idVars>>

TokenNext ==
    \/ \E force \in BOOLEAN : CallFetchToken(force)
    \/ \E c \in CallIds, r \in Responses : TokenFetched(c, r)
    \/ Tick

TokenSpec == TokenInit /\ [][TokenNext]_vars

\* ------------------------------------------------ runs of the handler alone
\* The page is rendered on the server or runs in the browser; the URL may be
\* missing.  The plugin provides the client only in the browser and only
\* after it found the URL (plugin.client.ts, 60-64 and 195).
HandlerInit ==
    /\ BridgeInit
    /\ TokenIdle
    /\ FetchIdle
    /\ PureIdle
    /\ PluginIdle
    /\ ProxyIdle
    /\ IdIdle
    /\ server \in BOOLEAN
    /\ convexUrl \in BOOLEAN
    /\ hasClient => (~server /\ convexUrl)
    /\ runs = [i \in RunIds |-> FreeRun]
    /\ opLog = <<>>

FreeRuns == { i \in RunIds : runs[i].pc = "free" }
NextRun == CHOOSE i \in FreeRuns : \A j \in FreeRuns : i <= j

handlerRest == <<hasClient, bstatus, subscribe, args, watchOld, asyncKey,
                 unsubscribeFn, subs, registry, asyncData, regLog,
                 tokenVars, fetchVars, pureVars, server, convexUrl,
                 pluginVars, proxyVars, idVars>>

\* useAsyncData runs the handler for args a of a query with {public: isPublic}.
RunHandler(a, isPublic) ==
    /\ FreeRuns # {}
    /\ runs' = [runs EXCEPT ![NextRun] =
                    handlerStart(a, isPublic, convexUrl, server, hasClient)]
    /\ UNCHANGED <<handlerRest, opLog>>

\* fetchAuthToken resolves to t (line 193) and executeQueryHttp sends the
\* request with the headers it built (lines 59-68).
AuthTokenFetched(i, t) ==
    /\ runs[i].pc = "token"
    /\ t \in fetchAuthToken(runs[i].pub)
    /\ runs' = [runs EXCEPT ![i].pc = "request",
                            ![i].token = t,
                            ![i].sent = Append(@, authorizationHeader(t))]
    /\ UNCHANGED <<handlerRest, opLog>>

\* $fetch settles with r and executeQueryHttp ends (lines 64-70); whatever it
\* throws leaves the handler and becomes the error of the asyncData.
HttpResponse(i, r) ==
    /\ runs[i].pc = "request"
    /\ runs' = [runs EXCEPT ![i].pc = "done",
                            ![i].resp = r,
                            ![i].outcome = executeQueryHttpEnd(r)]
    /\ UNCHANGED <<handlerRest, opLog>>

\* The first update of the one-shot subscription resolves the promise
\* (lines 85-90, 212-214).
FirstUpdate(i) ==
    /\ runs[i].pc = "subscribed"
    /\ runs' = [runs EXCEPT ![i].pc = "done", ![i].outcome = "value"]
    /\ UNCHANGED <<handlerRest, opLog>>

\* A mutation or an action asks ensureClient for the client.
EnsureClient(operationType) ==
    /\ Len(opLog) < MaxEnsure
    /\ opLog' = Append(opLog, <<operationType,
                                ensureClient(hasClient, operationType)>>)
    /\ UNCHANGED <<handlerRest, runs>>

HandlerNext ==
    \/ \E a \in ArgChoices, isPublic \in BOOLEAN : RunHandler(a, isPublic)
    \/ \E i \in RunIds, t \in {NoToken, EmptyToken} \cup AuthTokens :
           AuthTokenFetched(i, t)
    \/ \E i \in RunIds, r \in HttpResponses : HttpResponse(i, r)
    \/ \E i \in RunIds : FirstUpdate(i)
    \/ \E operationType \in OperationTypes : EnsureClient(operationType)

HandlerSpec == HandlerInit /\ [][HandlerNext]_vars

\* ------------------------------------------------- the pure helpers alone
\* Three values are given; the helpers are applied to them.
PureInit ==
    /\ BridgeInit
    /\ hasClient
    /\ TokenIdle
    /\ FetchIdle
    /\ HandlerIdle
    /\ PluginIdle
    /\ ProxyIdle
    /\ IdIdle
    /\ px \in Samples
    /\ py \in Samples
    /\ pz \in Samples
    /\ pres = <<"none">>

pureRest == <<hasClient, bstatus, subscribe, args, watchOld, asyncKey,
              unsubscribeFn, subs, registry, asyncData, regLog,
              tokenVars, fetchVars, handlerVars, px, py, pz,
              pluginVars, proxyVars, idVars>>

\* getCacheKey for the args values px and py.
DeriveKey ==
    /\ px \in ArgSamples /\ py \in ArgSamples
    /\ pres' = <<"deriveKey", getCacheKey(px), getCacheKey(py)>>
    /\ UNCHANGED pureRest

\* deepEqual(px, px), deepEqual(px, py) and deepEqual(py, px).
DeepEqual ==
    /\ pres' = <<"deepEqual", deepEqual(px, px, TRUE),
                 deepEqual(px, py, FALSE), deepEqual(py, px, FALSE)>>
    /\ UNCHANGED pureRest

\* compareJsonValues on the pairs (px, py), (py, px), (py, pz), (px, pz).
Compare ==
    /\ {px, py, pz} \subseteq JsonSamples
    /\ pres' = <<"compare", compareJsonValues(px, py),
                 compareJsonValues(py, px), compareJsonValues(py, pz),
                 compareJsonValues(px, pz)>>
    /\ UNCHANGED pureRest

\* The properties of full whose names are keys of partial.
RestrictedTo(full, partial) ==
    Obj(SelectSeq(full[2], LAMBDA p : p[1] \in ObjectKeys(partial)))

\* argsMatch(px, py, skipKeys), and the same with px cut down to the keys
\* of py.
ArgsMatch(skipKeys) ==
    /\ px[1] = "obj" /\ py[1] = "obj"
    /\ pres' = <<"argsMatch", skipKeys, argsMatch(px, py, skipKeys),
                 argsMatch(RestrictedTo(px, py), py, skipKeys)>>
    /\ UNCHANGED pureRest

PureNext ==
    \/ DeriveKey
    \/ \E skipKeys \in SUBSET {"a", "b"} : ArgsMatch(skipKeys)
    \/ DeepEqual
    \/ Compare

PureSpec == PureInit /\ [][PureNext]_vars

\* ------------------------------------------------ the client plugin alone
\* A fresh app in the browser: nothing provided, the plugin in one of its
\* two copies, the URLs configured or not.
PluginInit ==
    /\ BridgeInit
    /\ ~hasClient
    /\ TokenIdle
    /\ FetchIdle
    /\ PureIdle
    /\ ProxyIdle
    /\ IdIdle
    /\ server = FALSE
    /\ convexUrl \in BOOLEAN
    /\ runs = [i \in RunIds |-> FreeRun]
    /\ opLog = <<>>
    /\ initialized = FALSE
    /\ configSiteUrl \in BOOLEAN
    /\ pluginRuns = 0
    /\ made = NothingMade

\* The client plugin runs on the app (again, after a hot reload).
RunPlugin ==
    /\ pluginRuns < MaxPluginRuns
    /\ pluginRuns' = pluginRuns + 1
    /\ LET r == pluginSetup(initialized, convexUrl, configSiteUrl, made)
       IN /\ initialized' = r.initialized
          /\ made' = r.made
          /\ hasClient' = (hasClient \/ r.provided)
    /\ UNCHANGED <<bstatus, subscribe, args, watchOld, asyncKey,
                   unsubscribeFn, subs, registry, asyncData, regLog,
                   tokenVars, fetchVars, handlerVars, pureVars,
                   configSiteUrl, proxyVars, idVars>>

PluginNext ==
    \/ RunPlugin
    \/ \E operationType \in OperationTypes : EnsureClient(operationType)

PluginSpec == PluginInit /\ [][PluginNext]_vars

\* --------------------------------------------------- the auth proxy alone
ProxyInit ==
    /\ BridgeInit
    /\ ~hasClient
    /\ TokenIdle
    /\ FetchIdle
    /\ HandlerIdle
    /\ PureIdle
    /\ PluginIdle
    /\ IdIdle
    /\ proxyConfig \in [siteUrl : SiteUrls, trustedOrigins : TrustedLists]
    /\ response = NoResponse

\* A request reaches the proxy.
HandleAuthRequest(method, origin, upstream) ==
    /\ response' = authProxy(proxyConfig, method, origin, upstream)
    /\ UNCHANGED <<hasClient, bstatus, subscribe, args, watchOld, asyncKey,
                   unsubscribeFn, subs, registry, asyncData, regLog,
                   tokenVars, fetchVars, handlerVars, pureVars, pluginVars,
                   proxyConfig, idVars>>

ProxyNext ==
    \E method \in Methods, origin \in RequestOrigins, upstream \in BOOLEAN :
        HandleAuthRequest(method, origin, upstream)

ProxySpec == ProxyInit /\ [][ProxyNext]_vars

\* ------------------------------------------------- the instance ids alone
idRest == <<hasClient, bstatus, subscribe, args, watchOld, asyncKey,
            unsubscribeFn, subs, registry, asyncData, regLog, tokenVars,
            fetchVars, handlerVars, pureVars, pluginVars, proxyVars>>

\* getInstanceId(instance) is called.
GetInstanceId(instance) ==
    /\ Len(issued) < MaxIssues
    /\ LET r == getInstanceId(instance, globalInstanceCounter,
                              instanceIdMap)
       IN /\ globalInstanceCounter' = r.counter
          /\ instanceIdMap' = r.map
          /\ issued' = Append(issued, [kind |-> "instance",
                                       instance |-> instance, id |-> r.id])
    /\ UNCHANGED idRest

\* generatePaginationId() is called.
GeneratePaginationId ==
    /\ Len(issued) < MaxIssues
    /\ LET r == generatePaginationId(globalInstanceCounter)
       IN /\ globalInstanceCounter' = r.counter
          /\ issued' = Append(issued, [kind |-> "pagination",
                                       instance |-> 0, id |-> r.id])
    /\ UNCHANGED <<idRest, instanceIdMap>>

IdNext ==
    \/ \E instance \in Objects : GetInstanceId(instance)
    \/ GeneratePaginationId

IdSpec == Init /\ [][IdNext]_vars

\* ------------------------------------------------------------ properties
\* The registry calls made on key k, in order.
LogOn(k) == SelectSeq(regLog, LAMBDA e : e[2] = k)

\* Whether the calls in log are exactly the kinds in the sequence kinds.
HasKinds(log, kinds) ==
    /\ Len(log) = Len(kinds)
    /\ \A i \in 1..Len(kinds) : log[i][1] = kinds[i]

RECURSIVE SumTeardowns(_, _)
\* How often the unsubscribe functions of the subscriptions 1..n opened for
\* key k have been invoked, in total.
SumTeardowns(k, n) ==
    IF n = 0 THEN 0
    ELSE (IF subs[n].state # "free" /\ subs[n].key = k
          THEN subs[n].teardowns ELSE 0) + SumTeardowns(k, n - 1)

\* The subscriptions open for key k.
OpenFor(k) == { s \in SubIds : subs[s].state = "open" /\ subs[s].key = k }

\* Binding b is mounted with the subscription bridge, its args watcher has
\* nothing pending and its args are a concrete mapping.
SettledOn(b) ==
    /\ bstatus[b] = "mounted"
    /\ subscribe[b]
    /\ args[b] = watchOld[b]
    /\ ~isSkip(args[b])

\* C1: the cache maps a key to one stored teardown (types.d.ts:11), and a
\* register call stores its teardown only when the key is absent: when the
\* key is present the call changes nothing, so an entry is never replaced
\* by another one; the entry of a key is the teardown of a subscription
\* opened for that key.
C1_RegisterKeepsFirstEntry ==
    /\ [](\A k \in RegKeys :
            registry[k] # NoSub => subs[registry[k]].key = k)
    /\ [][\A k \in RegKeys :
            /\ (registry[k] # NoSub /\ registry'[k] # NoSub)
                   => registry'[k] = registry[k]
            /\ \A s \in SubIds :
                 regLog' = Append(regLog, <<"register", k, s>>) =>
                    /\ registry'[k] = IF registry[k] = NoSub THEN s
                                      ELSE registry[k]
                    /\ \A j \in AllKeys \ {k} : registry'[j] = registry[j]
         ]_vars

\* Two registers were made for one key and the entry is the first one's.
C1_Witness ==
    \E i, j \in 1..Len(regLog) :
        /\ i < j
        /\ regLog[i][1] = "register" /\ regLog[j][1] = "register"
        /\ regLog[i][2] = regLog[j][2]
        /\ registry[regLog[i][2]] = regLog[i][3]
        /\ subs[regLog[j][3]].state = "open"

\* C2: the unsubscribe function of a subscription a binding registered is
\* invoked at most once, whatever the bindings sharing the cache do.
C2_TeardownAtMostOnce == \A s \in SubIds : subs[s].teardowns <= 1

\* C3: at most one persistent subscription opened by bindings is open for a
\* cache key at any time.
C3_OneOpenSubscriptionPerKey ==
    \A k \in CacheKeys : Cardinality(OpenFor(k)) <= 1

\* C4: cleanup of a key invokes the stored teardown once and removes the
\* entry, cleanup of a key without entry changes nothing, and after two
\* registers and then two cleanups of one key exactly one teardown has run.
C4_CleanupOnce ==
    /\ [](\A k \in RegKeys :
            HasKinds(LogOn(k), <<"register", "register", "cleanup", "cleanup">>)
                => SumTeardowns(k, MaxSubs) = 1)
    /\ [][\A k \in RegKeys :
            regLog' = Append(regLog, <<"cleanup", k, NoSub>>) =>
               /\ registry'[k] = NoSub
               /\ \A j \in AllKeys \ {k} : registry'[j] = registry[j]
               /\ \A s \in SubIds :
                    subs'[s].teardowns =
                        subs[s].teardowns + (IF registry[k] = s THEN 1 ELSE 0)
         ]_vars

\* One key was registered twice and then cleaned up twice.
C4_Witness ==
    \E k \in RegKeys :
        /\ HasKinds(LogOn(k), <<"register", "register", "cleanup", "cleanup">>)
        /\ SumTeardowns(k, MaxSubs) = 1

\* C5: removing a key's entry invokes no teardown and leaves has(key)
\* false, and has(key) is true exactly when the last call made on the key
\* is a register.
C5_RemoveWithoutTeardown ==
    /\ [](\A k \in RegKeys :
            hasSubscription(registry, k)
                <=> (LogOn(k) # <<>>
                     /\ LogOn(k)[Len(LogOn(k))][1] = "register"))
    /\ [][\A k \in RegKeys :
            regLog' = Append(regLog, <<"remove", k, NoSub>>) =>
               /\ ~hasSubscription(registry', k)
               /\ \A j \in AllKeys \ {k} : registry'[j] = registry[j]
               /\ subs' = subs
         ]_vars

\* The entry of a registered key was removed and its teardown never ran.
C5_Witness ==
    \E i \in 1..Len(regLog) :
        /\ regLog[i][1] = "register"
        /\ regLog[Len(regLog)] = <<"remove", regLog[i][2], NoSub>>
        /\ subs[regLog[i][3]].state = "open"
        /\ subs[regLog[i][3]].teardowns = 0
        /\ ~hasSubscription(registry, regLog[i][2])

\* C7: once a binding has moved from one key to another, the callback of a
\* subscription it opened for the earlier key no longer writes its data.
C7_NoPushForEarlierKey ==
    [][\A s \in SubIds, v \in DataValues :
         Push(s, v) =>
            ~(/\ SettledOn(subs[s].owner)
              /\ getCacheKey(args[subs[s].owner]) # subs[s].key)
      ]_vars

\* C8: the subscription an unmounted binding opened is torn down, so that
\* no callback writes the binding's data after the unmount.
C8_NoOpenSubscriptionAfterUnmount ==
    \A s \in SubIds :
        subs[s].state = "open" => bstatus[subs[s].owner] # "unmounted"

\* C9: the args watcher of a binding leaves alone the subscription that
\* another mounted binding opened for the earlier key and still holds: it
\* stays open and stays in the cache.
C9_ArgChangeSparesOtherBindings ==
    [][\A b \in Bindings :
         ArgsWatcher(b) =>
            \A s \in SubIds :
               (/\ subs[s].state = "open"
                /\ subs[s].owner # b
                /\ bstatus[subs[s].owner] = "mounted"
                /\ unsubscribeFn[subs[s].owner] = s
                /\ registry[subs[s].key] = s)
               => (subs'[s].state = "open" /\ registry'[subs[s].key] = s)
      ]_vars

\* C10: a push of the live feed of a key writes the data of every mounted
\* binding that is on that key with live updates enabled, the bindings that
\* reused another binding's entry included.
C10_PushReachesEveryBinding ==
    [][\A s \in SubIds, v \in DataValues :
         Push(s, v) =>
            \A b \in Bindings :
               (SettledOn(b) /\ getCacheKey(args[b]) = subs[s].key)
                   => asyncData'[asyncKey[b]] = v
      ]_vars

\* The binding QB is mounted on the skip sentinel and its watchers have run.
SkippedQB ==
    /\ bstatus[QB] = "mounted"
    /\ isSkip(args[QB])
    /\ args[QB] = watchOld[QB]

\* The cache keys whose entry is a subscription the binding b opened.
RegisteredBy(reg, S, b) ==
    { k \in AllKeys : reg[k] # NoSub /\ S[reg[k]].owner = b }

\* C11: while the args of a binding are 'skip', the latest run of its
\* handler issued no request, its status is idle, it has no data and no
\* subscription of its own is registered; and the change from 'skip' to a
\* concrete mapping issues exactly one one-shot request and registers
\* exactly one subscription.
C11_SkipIsIdleThenOneFetch ==
    /\ [](SkippedQB =>
            /\ execs[LastExec(execs)].state = "skipped"
            /\ status = "idle"
            /\ asyncData[asyncKey[QB]] = NoData
            /\ unsubscribeFn[QB] = NoSub
            /\ RegisteredBy(registry, subs, QB) = {})
    /\ [][(/\ FlushArgs
           /\ isSkip(watchOld[QB]) /\ ~isSkip(args[QB])
           /\ hasClient /\ subscribe[QB])
          => /\ UsedExecs(execs') \ UsedExecs(execs) = {LastExec(execs')}
             /\ execs'[LastExec(execs')] = executeQueryViaSubscription
             /\ Cardinality(RegisteredBy(registry', subs', QB)) = 1
             /\ RegisteredBy(registry, subs, QB) = {}
         ]_vars

C13_OneRefreshInFlight == Cardinality(InFlight(calls)) <= 1

\* C14: with a token present and forceRefreshToken false, fetchToken
\* returns that token at once, starts no network call, leaves the token
\* alone and sets lastTokenValidation to the current time.
C14_HydratedTokenNoNetwork ==
    [][(convexToken # NoToken /\ CallFetchToken(FALSE)) =>
          /\ calls'[NextCall].pc = "done"
          /\ calls'[NextCall].ret = convexToken
          /\ InFlight(calls') = InFlight(calls)
          /\ convexToken' = convexToken
          /\ lastTokenValidation' = now
      ]_vars

\* A call took the hydrated path some time after the start, and the
\* validation time is the time of that call.
C14_Witness ==
    \E c \in CallIds :
        /\ calls[c].path = "hydrated"
        /\ calls[c].ret = convexToken /\ convexToken # NoToken
        /\ InFlight(calls) = {}
        /\ now > 0
        /\ lastTokenValidation = now

\* C15: with a token present and forceRefreshToken true, fetchToken returns
\* the token unchanged without a network call when less than 10 000 ms have
\* passed since the last validation, and starts exactly one network call
\* when 10 000 ms or more have passed.
C15_ForcedRefreshHonoursTtl ==
    [][(convexToken # NoToken /\ CallFetchToken(TRUE)) =>
          IF now - lastTokenValidation < 10000
          THEN /\ calls'[NextCall].pc = "done"
               /\ calls'[NextCall].ret = convexToken
               /\ InFlight(calls') = InFlight(calls)
               /\ convexToken' = convexToken
               /\ lastTokenValidation' = lastTokenValidation
          ELSE /\ NextCall \notin InFlight(calls)
               /\ InFlight(calls') = InFlight(calls) \cup {NextCall}
      ]_vars

\* One forced call was answered from the cache and another one, made with
\* a token present, went to the network.
C15_Witness ==
    \E c, d \in CallIds :
        /\ calls[c].force /\ calls[c].path = "cached"
        /\ calls[c].ret = calls[c].tok
        /\ calls[d].force /\ calls[d].path = "network"
        /\ calls[d].tok # NoToken

\* C16: without token and without user, fetchToken returns null at once
\* and starts no network call, whatever forceRefreshToken is.
C16_UnauthenticatedNoNetwork ==
    [][\A force \in BOOLEAN :
         (convexToken = NoToken /\ convexUser = NoUser
          /\ CallFetchToken(force)) =>
            /\ calls'[NextCall].pc = "done"
            /\ calls'[NextCall].ret = NoToken
            /\ InFlight(calls') = InFlight(calls)
      ]_vars

\* C17: when the network fetch throws, answers with an error or answers
\* without a token, fetchToken clears the token and the user and returns
\* null.
C17_FailureClearsTokenAndUser ==
    [][\A c \in CallIds, r \in Failures :
         TokenFetched(c, r) =>
            /\ convexToken' = NoToken
            /\ convexUser' = NoUser
            /\ calls'[c].pc = "done"
            /\ calls'[c].ret = NoToken
      ]_vars

\* C18: a successful fetch stores the token, marks it validated and returns
\* it; with no user known it sets the user from the payload of the token,
\* and leaves the user unset when the payload cannot be decoded; a user
\* that is known is left as it is.
C18_UserFromTokenPayload ==
    [][\A c \in CallIds, t \in Tokens :
         TokenFetched(c, t) =>
            /\ convexToken' = t
            /\ lastTokenValidation' = now
            /\ calls'[c].ret = t
            /\ convexUser # NoUser => convexUser' = convexUser
            /\ (convexUser = NoUser /\ t = "h.sub.s")
                   => convexUser' = "user:jwt"
            /\ (convexUser = NoUser /\ t = "h.%.s") => convexUser' = NoUser
      ]_vars

\* C19: a run of executeQueryViaSubscription opens one subscription, its
\* promise resolves with the first result delivered, and its unsubscribe is
\* called exactly once, at that first result; later results change neither
\* the resolved value nor the number of unsubscribe calls.
C19_FirstResultOnce ==
    /\ [](\A i \in ExecIds :
            execs[i].state = "called" =>
               IF execs[i].pushes = 0
               THEN /\ execs[i].open /\ ~execs[i].resolved
                    /\ execs[i].unsubs = 0
               ELSE /\ ~execs[i].open /\ execs[i].resolved
                    /\ execs[i].unsubs = 1
                    /\ execs[i].result \in ResultValues)
    /\ [][\A i \in ExecIds, v \in ResultValues :
            FirstResult(i, v) =>
               IF execs[i].pushes = 0
               THEN execs'[i].result = v /\ execs'[i].unsubs = 1
               ELSE /\ execs'[i].result = execs[i].result
                    /\ execs'[i].unsubs = execs[i].unsubs
         ]_vars

\* A one-shot subscription got a second result after the first one.
C19_Witness ==
    \E i \in ExecIds :
        /\ execs[i].state = "called"
        /\ execs[i].pushes >= 2
        /\ execs[i].resolved /\ ~execs[i].open
        /\ execs[i].unsubs = 1

\* C20: while the initial fetch of a binding is pending, the binding has
\* set up no persistent subscription: it holds no unsubscribe function and
\* no entry of the cache is its own.
C20_SubscribesAfterInitialValue ==
    (/\ bstatus[QB] = "mounted"
     /\ LastExec(execs) = 1
     /\ execs[1].state = "called" /\ ~execs[1].resolved)
    => (/\ unsubscribeFn[QB] = NoSub
        /\ RegisteredBy(registry, subs, QB) = {})

\* C21: when the watchers run for an args value whose canonical form is
\* the one of the value they saw last (same content, other key order), the
\* subscription of the binding is neither torn down nor set up again: its
\* unsubscribe function, the subscriptions and the cache stay as they are.
C21_EqualArgsKeepSubscription ==
    [][(/\ stableStringify(args[QB]) = stableStringify(watchOld[QB])
        /\ FlushArgs)
       => UNCHANGED <<unsubscribeFn, subs, registry>>
      ]_vars

\* The handler has run a second time for a concrete args value and the
\* binding still holds the first subscription, the only one ever opened,
\* never torn down and still in the cache: the args were replaced by a
\* value with the same canonical form and the watchers have run.
C21_Witness ==
    /\ bstatus[QB] = "mounted"
    /\ args[QB] = watchOld[QB]
    /\ LastExec(execs) = 2
    /\ execs[1].state = "called" /\ execs[2].state = "called"
    /\ unsubscribeFn[QB] = 1
    /\ subs[1].state = "open" /\ subs[1].teardowns = 0
    /\ registry[getCacheKey(args[QB])] = 1
    /\ \A s \in SubIds \ {1} : subs[s].state = "free"

\* C22: every request a run of the handler has sent carries no Authorization
\* header when the query is marked public, and carries Bearer <token> when
\* the query is not public and fetchAuthToken gave a token.
C22_BearerUnlessPublic ==
    \A i \in RunIds :
        \A n \in 1..Len(runs[i].sent) :
            /\ runs[i].pub => runs[i].sent[n] = NoHeader
            /\ (~runs[i].pub /\ runs[i].token \in AuthTokens)
                   => runs[i].sent[n] = Bearer(runs[i].token)

\* C22: a public run and a non-public run with a token have both sent their
\* request.
C22_Witness ==
    \E i, j \in RunIds :
        /\ runs[i].pub /\ runs[i].sent = <<NoHeader>>
        /\ ~runs[j].pub /\ runs[j].token = "jwt"
        /\ runs[j].sent = <<Bearer("jwt")>>

\* C23: without the URL a run for concrete args is over at once with the
\* configuration error, having called neither fetchAuthToken nor $fetch nor
\* convex.onUpdate, and it sends nothing later.
C23_NoUrlFailsBeforeAnyWork ==
    \A i \in RunIds :
        (~convexUrl /\ runs[i].pc # "free" /\ ~runs[i].skip)
            => /\ runs[i].pc = "done"
               /\ runs[i].outcome = "ConfigurationError"
               /\ runs[i].tokenFetches = 0
               /\ runs[i].sent = <<>>
               /\ runs[i].onUpdates = 0

\* C23: on the server, without the URL, a run for concrete args has failed.
C23_Witness ==
    /\ ~convexUrl /\ server
    /\ \E i \in RunIds :
           /\ ~runs[i].skip
           /\ runs[i].pc = "done"
           /\ runs[i].outcome = "ConfigurationError"

\* C24: in the browser with the URL but without a client, a run for concrete
\* args is over with the client-unavailable error and has not called
\* convex.onUpdate; and a call of ensureClient has thrown ClientOnlyError
\* exactly when there is no client.
C24_NoClientFails ==
    /\ \A i \in RunIds :
           (~server /\ convexUrl /\ ~hasClient
                /\ runs[i].pc # "free" /\ ~runs[i].skip)
               => /\ runs[i].pc = "done"
                  /\ runs[i].outcome = "ClientUnavailable"
                  /\ runs[i].onUpdates = 0
    /\ \A n \in 1..Len(opLog) :
           (opLog[n][2] = "ClientOnlyError") <=> ~hasClient

\* C24: without a client a run has failed and ensureClient has thrown for a
\* mutation.
C24_Witness ==
    /\ ~hasClient /\ ~server /\ convexUrl
    /\ \E i \in RunIds : runs[i].outcome = "ClientUnavailable"
    /\ \E n \in 1..Len(opLog) : opLog[n] = <<"mutation", "ClientOnlyError">>

\* C25: a run never has more than one request; once its request has thrown
\* or has been answered with an error envelope the run is over with an
\* error, and a run that ended with a value was answered with a success
\* envelope.
C25_OneRequestFailuresAreErrors ==
    \A i \in RunIds :
        /\ Len(runs[i].sent) <= 1
        /\ runs[i].resp # "none" => Len(runs[i].sent) = 1
        /\ runs[i].resp = "throw"
               => runs[i].pc = "done" /\ runs[i].outcome = "TransportError"
        /\ runs[i].resp = "error"
               => runs[i].pc = "done" /\ runs[i].outcome = "ApplicationError"
        /\ (runs[i].sent # <<>> /\ runs[i].outcome = "value")
               => runs[i].resp = "success"

\* C25: one run ended with the transport failure and one with the error
\* envelope, each after one request.
C25_Witness ==
    \E i, j \in RunIds :
        /\ runs[i].resp = "throw" /\ runs[i].outcome = "TransportError"
        /\ runs[j].resp = "error" /\ runs[j].outcome = "ApplicationError"
        /\ Len(runs[i].sent) = 1 /\ Len(runs[j].sent) = 1

\* Two values are the same mapping up to the order in which the keys were
\* inserted, at every depth.
RECURSIVE SameMapping(_, _)
SameMapping(x, y) ==
    IF x[1] # y[1] THEN FALSE
    ELSE IF x[1] = "obj"
    THEN /\ ObjectKeys(x) = ObjectKeys(y)
         /\ Len(x[2]) = Len(y[2])
         /\ \A k \in ObjectKeys(x) :
                SameMapping(GetProperty(x, k), GetProperty(y, k))
    ELSE IF x[1] = "array"
    THEN /\ Len(x[2]) = Len(y[2])
         /\ \A i \in 1..Len(x[2]) : SameMapping(x[2][i], y[2][i])
    ELSE x = y

\* C26: the keys derived for two argument mappings that are the same up to
\* the insertion order of their keys, at any depth, are equal.
C26_KeyIgnoresInsertionOrder ==
    (pres[1] = "deriveKey" /\ px[1] = "obj" /\ SameMapping(px, py))
        => pres[2] = pres[3]

\* C26: the keys of a nested mapping and of the same mapping with the keys
\* of both depths inserted in the other order have been derived.
C26_Witness ==
    /\ pres[1] = "deriveKey"
    /\ px = Nested1 /\ py = Nested2
    /\ px # py
    /\ pres[2] = pres[3]

\* C27: the skip key differs from the key of every concrete mapping, and
\* the key the args watcher of a binding derives for old args 'skip' is the
\* skip key that getCacheKey derives for them.
C27_OneSkipKey ==
    /\ \A a \in ArgSamples :
           ~isSkip(a) => getCacheKey(SkipArgs) # getCacheKey(a)
    /\ (/\ bstatus[QB] = "mounted"
        /\ subscribe[QB]
        /\ isSkip(watchOld[QB])
        /\ args[QB] # watchOld[QB])
           => oldCacheKey(watchOld[QB]) = getCacheKey(watchOld[QB])

\* C28: deepEqual(x, x) is true and deepEqual(a, b) = deepEqual(b, a).
C28_DeepEqualReflexiveSymmetric ==
    pres[1] = "deepEqual" => (pres[2] /\ pres[3] = pres[4])

\* C29: the sign of compare(a, b) is the opposite of the sign of
\* compare(b, a), and compare(a, b) < 0 with compare(b, c) < 0 gives
\* compare(a, c) < 0.
C29_CompareStrictTotalOrder ==
    pres[1] = "compare"
        => /\ (pres[2] < 0) = (pres[3] > 0)
           /\ (pres[2] = 0) = (pres[3] = 0)
           /\ (pres[2] < 0 /\ pres[4] < 0) => pres[5] < 0

\* C30: compare(a, b) is -1, 0 or 1; null and undefined come before every
\* other value; two arrays compare as their first pair of elements that do
\* not compare equal.
C30_CompareReturnsSign ==
    pres[1] = "compare"
        => /\ pres[2] \in {-1, 0, 1}
           /\ (isNullish(px) /\ ~isNullish(py)) => pres[2] < 0
           /\ (isArray(px) /\ isArray(py))
                  => \A i \in 1..Len(px[2]) :
                         (/\ \A j \in 1..(i - 1) :
                                compareJsonValues(px[2][j],
                                                  ElementAt(py[2], j)) = 0
                          /\ compareJsonValues(px[2][i],
                                               ElementAt(py[2], i)) # 0)
                             => pres[2] = compareJsonValues(
                                              px[2][i], ElementAt(py[2], i))

\* C31: argsMatch(full, partial, skipKeys) is true exactly when deepEqual
\* holds of full[key] and partial[key] for every key of partial outside
\* skipKeys; the keys that only full has do not change the result, and the
\* empty partial matches.
C31_ArgsMatchIsPartialMatch ==
    pres[1] = "argsMatch"
        => /\ pres[3] = (\A k \in ObjectKeys(py) \ pres[2] :
                            deepEqual(PropertyOf(px, k), PropertyOf(py, k),
                                      FALSE))
           /\ pres[3] = pres[4]
           /\ py = Obj(<<>>) => pres[3]

\* C31: {a:2, b:1} has matched the filter {a:1, b:1} with the key a skipped,
\* and does not match it with no key skipped.
C31_Witness ==
    /\ pres[1] = "argsMatch"
    /\ px = Obj(<< <<"a", Num(2)>>, <<"b", Num(1)>> >>)
    /\ py = Obj(<< <<"a", Num(1)>>, <<"b", Num(1)>> >>)
    /\ pres[2] = {"a"}
    /\ pres[3]
    /\ ~argsMatch(px, py, {})

\* C32: useConvexStorageUrl passes 'skip' exactly when the storage id is
\* null or undefined, and {storageId} otherwise; under a null or undefined
\* id the call makes no request and opens no subscription; and the URL is
\* null whenever the query has no data.
C32_StorageUrlSkipsMissingId ==
    [][\A id \in StorageIds :
          (UseConvexStorageUrl(id) \/ SetStorageId(id))
              => /\ isSkip(args'[QB]) <=> isNullish(id)
                 /\ ~isNullish(id)
                        => args'[QB] = Obj(<< <<"storageId", id>> >>)
                 /\ (isNullish(id) /\ bstatus[QB] = "new")
                        => /\ execs'[1].state = "skipped"
                           /\ unsubscribeFn'[QB] = NoSub
                           /\ subs' = subs
                 /\ asyncData'[asyncKey'[QB]] = NoData
                        => storageUrl(asyncData'[asyncKey'[QB]]) = NullUrl
      ]_vars

\* C33: a run of the plugin on an app that is initialised already creates
\* no client, calls neither setAuth nor provide, and leaves what the app
\* provides as it is; so one app never has more than one client.
C33_PluginInitialisesOnce ==
    /\ [][(initialized /\ RunPlugin)
             => UNCHANGED <<made, hasClient, initialized>>]_vars
    /\ [](made.clients <= 1 /\ made.setAuths <= 1 /\ made.provides <= 2)

\* C33: the plugin has run twice on an app with both URLs; one client was
\* created and setAuth was called once.
C33_Witness ==
    /\ pluginRuns >= 2
    /\ convexUrl /\ configSiteUrl
    /\ made = [clients |-> 1, authClients |-> 1, setAuths |-> 1,
               provides |-> 2]
    /\ hasClient

\* A text fits a pattern with one wildcard when it begins with what stands
\* before the wildcard and ends with what stands after it.
FitsPattern(pattern, text) ==
    LET k == CHOOSE i \in 1..Len(pattern) : pattern[i] = "*"
        tail == Len(pattern) - k
    IN /\ Len(text) >= Len(pattern) - 1
       /\ SubSeq(text, 1, k - 1) = SubSeq(pattern, 1, k - 1)
       /\ SubSeq(text, Len(text) - tail + 1, Len(text))
              = SubSeq(pattern, k + 1, Len(pattern))

\* The origin is the origin of the site URL, or one of the trusted
\* origins, or fits one of the trusted patterns as a whole.
OriginTrusted(origin, cfg) ==
    /\ isSet(origin)
    /\ \/ isSet(cfg.siteUrl) /\ urlOrigin(cfg.siteUrl) = origin
       \/ \E k \in 1..Len(cfg.trustedOrigins) :
              \/ cfg.trustedOrigins[k] = origin
              \/ /\ hasWildcard(cfg.trustedOrigins[k])
                 /\ FitsPattern(cfg.trustedOrigins[k][2], origin[2])

\* What C34 says of the response to a request.
CorsAsStated ==
    /\ response.allowOrigin # Null
           => /\ response.allowOrigin = response.origin
              /\ OriginTrusted(response.origin, proxyConfig)
    /\ response.method = "OPTIONS"
           => /\ response.status =
                     (IF OriginTrusted(response.origin, proxyConfig)
                      THEN 204 ELSE 403)
              /\ ~response.forwarded

\* C34 as stated: the proxy sets Access-Control-Allow-Origin only for an
\* origin that is the site's or a trusted one; OPTIONS gets 204 for such
\* an origin and 403 otherwise, and is not forwarded.
C34_CorsOnlyForTrustedOrigins ==
    response.method # "none" => CorsAsStated

\* C34 with the site URL configured: the same, for a proxy whose site URL
\* is set.
C34_CorsOnlyForTrustedOrigins_Configured ==
    (response.method # "none" /\ isSet(proxyConfig.siteUrl))
        => CorsAsStated

\* C34: a preflight from an origin that fits the trusted pattern got 204
\* with the header, and was not forwarded.
C34_Witness ==
    /\ isSet(proxyConfig.siteUrl)
    /\ response.method = "OPTIONS"
    /\ response.origin = PreviewOrigin
    /\ response.status = 204
    /\ response.allowOrigin = PreviewOrigin
    /\ ~response.forwarded

\* Two calls asked for the id of the same object.
SameInstance(e, f) ==
    e.kind = "instance" /\ f.kind = "instance" /\ e.instance = f.instance

\* The j-th call handed out a new id: no earlier call was for its object.
FreshIssue(j) == \A i \in 1..(j - 1) : ~SameInstance(issued[i], issued[j])

\* C35: calls of getInstanceId for the same object give the same id; the
\* ids of all other pairs of calls differ; and a new id is greater than
\* every id handed out before it.
C35_InstanceIdsStableAndIncreasing ==
    \A i, j \in 1..Len(issued) :
        i < j => /\ SameInstance(issued[i], issued[j])
                       => issued[i].id = issued[j].id
                 /\ ~SameInstance(issued[i], issued[j])
                       => issued[i].id # issued[j].id
                 /\ FreshIssue(j) => issued[i].id < issued[j].id

\* C35: one object was asked for twice, around a pagination id, and then
\* another object.
C35_Witness ==
    /\ Len(issued) = 4
    /\ issued[1].kind = "instance" /\ issued[1].instance = 1
    /\ issued[2].kind = "pagination"
    /\ issued[3].kind = "instance" /\ issued[3].instance = 1
    /\ issued[4].kind = "instance" /\ issued[4].instance = 2
    /\ issued[3].id = issued[1].id
    /\ issued[4].id > issued[2].id

\* C36: the subscription cache has an entry for a key exactly when a
\* subscription that a binding opened for that key is open, in every
\* reachable state, also after a binding unmounted between a change of its
\* args and the run of its watcher.
C36_RegistryMatchesOpenSubscriptions ==
    \A k \in CacheKeys : hasSubscription(registry, k) <=> OpenFor(k) # {}

\* Binding b has the subscription bridge, its last setupSubscription ran
\* with a client on the concrete args it has now, and it never opened a
\* subscription: every setup it ran found the entry of another binding.
ReusedEntry(b) ==
    /\ hasClient
    /\ subscribe[b]
    /\ ~isSkip(args[b])
    /\ watchOld[b] = args[b]
    /\ \A s \in SubIds : subs[s].owner # b

\* C37: the unmount of a binding that reused the entry of another binding
\* and opened no subscription itself invokes no teardown and leaves the
\* subscription cache as it is.
C37_UnmountOfReuserChangesNothing ==
    [][\A b \in Bindings :
         (ReusedEntry(b) /\ Unmount(b)) =>
            /\ registry' = registry
            /\ subs' = subs
      ]_vars

\* C37: a binding that reused an entry has unmounted; the entry is still
\* there and its subscription is open and was never torn down.
C37_Witness ==
    \E b \in Bindings :
        /\ ReusedEntry(b)
        /\ bstatus[b] = "unmounted"
        /\ hasSubscription(registry, getCacheKey(args[b]))
        /\ subs[registry[getCacheKey(args[b])]].state = "open"
        /\ subs[registry[getCacheKey(args[b])]].teardowns = 0

\* C38: a call of fetchToken with forceRefreshToken false and a token
\* present is done without a network call and leaves lastTokenValidation
\* at or after its own time; and a call with forceRefreshToken true made
\* less than 10 000 ms after such a call, with a token present, returns
\* that token and starts no network call, however old the token is.
C38_HydratedCallRestartsTtl ==
    /\ [](\A c \in CallIds :
            calls[c].path = "hydrated" =>
               /\ calls[c].pc = "done"
               /\ lastTokenValidation >= calls[c].at)
    /\ [][(/\ convexToken # NoToken
           /\ CallFetchToken(TRUE)
           /\ \E c \in CallIds :
                 /\ calls[c].path = "hydrated"
                 /\ now - calls[c].at < TOKEN_CACHE_MS) =>
              /\ calls'[NextCall].pc = "done"
              /\ calls'[NextCall].ret = convexToken
              /\ InFlight(calls') = InFlight(calls)
              /\ UNCHANGED <<convexToken, lastTokenValidation>>
         ]_vars

\* C38: the token is the hydrated one and no call ever went to the
\* network; a call without forced refresh was made when the token was
\* 10 000 ms old, and a forced call 5 000 ms later was answered from the
\* cache.
C38_Witness ==
    \E c, d \in CallIds :
        /\ calls[c].path = "hydrated" /\ ~calls[c].force
        /\ calls[c].at = TOKEN_CACHE_MS
        /\ calls[d].path = "cached" /\ calls[d].force
        /\ calls[d].at = TOKEN_CACHE_MS + TickMs
        /\ calls[d].ret = convexToken /\ convexToken # NoToken
        /\ \A e \in CallIds : calls[e].path # "network"

\* The calls c and d of fetchToken waited for the network at the same
\* time: one of them was waiting when the other was made.
Overlapped(c, d) ==
    /\ c # d
    /\ calls[c].path = "network" /\ calls[d].path = "network"
    /\ (c \in calls[d].during \/ d \in calls[c].during)

====
